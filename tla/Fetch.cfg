SPECIFICATION FairFetch
CONSTANTS
  Caller = {c1, c2}
  NucleusFile = {"cell.py"}
  MembraneFile = {"tally.wasm"}
  Other = {"other.py"}
  MaxCalls = 2
  MaxDaemon = 1
  MaxCollect = 1
INVARIANTS
  WholeOrNothing
  FetchedStays
PROPERTIES
  Delivers
  CallsEnd
CHECK_DEADLOCK FALSE
