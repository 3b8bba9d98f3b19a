SPECIFICATION FairSpec
CONSTANTS
  dsm1 = dsm1
  dsm2 = dsm2
  d1 = d1
  d2 = d2
  NoDaemon = NoDaemon
  Caller = {dsm1, dsm2}
  Kinds <- MCKinds
  Daemon = {d1, d2}
  Settings = 2
  Polls = 2
INVARIANTS
  BuildsAgain
  ReadyWhenOrderly
  Reaped
  NeverPublicWhenOrderly
PROPERTY CallersEnd
