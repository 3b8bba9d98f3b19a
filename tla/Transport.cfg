SPECIFICATION Spec
CONSTANTS
  libc = libc
  lib = lib
  ipfs = ipfs
  cowsay = cowsay
  b1 = b1
  b2 = b2
  Path <- MCPath
  Root <- MCRoot
  Graphs <- MCGraphs
  Importer = {b1, b2}
  Target <- MCTarget
  Sorted <- MCSorted
INVARIANTS
  RefusedOnlyByCollector
  DoneMeansInstalled
  ReplayIsSound
