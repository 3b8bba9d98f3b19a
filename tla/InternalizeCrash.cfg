SPECIFICATION Spec
CONSTANTS
  dsm1 = dsm1
  dsm2 = dsm2
  bin = bin
  lib = lib
  Process = {dsm1}
  File = {bin, lib}
  MaxKills = 1
INVARIANT ReturnsTheDependency
