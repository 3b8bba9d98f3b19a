SPECIFICATION FairWalk
CONSTANTS
  StorePath <- MCPath
  root = "r"
INVARIANTS
  YieldOrder
  OmitsExactlyStuck
PROPERTY SortsToTheEnd
CHECK_DEADLOCK FALSE
