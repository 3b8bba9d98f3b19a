SPECIFICATION FairSpec
CONSTANTS
  dsm1 = dsm1
  dsm2 = dsm2
  bin = bin
  lib = lib
  Process = {dsm1, dsm2}
  File = {bin, lib}
  MaxKills = 1
INVARIANTS
  ReturnedIsComplete
  SurvivorCompletes
  SharedStaysWhole
PROPERTIES
  CallsEnd
