CONSTANTS
  named = named
  bare = bare
  plain = plain
  k1 = k1
  k2 = k2
  Charts = {named, bare, plain}
  NoChart = NoChart
  Keys = {k1, k2}
  NoKey = NoKey
  Invalid = Invalid
  KeyOf <- Encryption
  HintOf <- Hints
  File <- Files
  ProbeTries = 2
  AwaitTries = 2
  MaxFails = 1
  Procs = {s1, s2}
  NoProc = NoProc
SPECIFICATION FairSpec
CHECK_DEADLOCK FALSE
INVARIANTS
  TypeOK
  CalmOpenSucceeds
  OneServer
PROPERTY
  OpensInOrder
  InitReturns
