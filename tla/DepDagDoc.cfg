SPECIFICATION WalkSpec
CONSTANTS
  StorePath <- MCPath
  root = "r"
INVARIANT DependenciesProcessedFirst
CHECK_DEADLOCK FALSE
