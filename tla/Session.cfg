SPECIFICATION Spec
CONSTANTS
  Sessions = {s1, s2}
  File = {conf, count}
  Overlays <- AllOrNone
  Name = {m, n}
  Before = Before
  None = None
SYMMETRY Symmetric
INVARIANTS
  Hermetic
  DeclaredOrLoud
PROPERTY HomesLiveAndDie
CHECK_DEADLOCK FALSE
