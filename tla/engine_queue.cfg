CONSTANTS
  Pipeline <- OneStage
  NRuns = 2
  MaxCmds = 9
  MaxDup = 0
  MaxLoss = 1
  MaxExpire = 0
  MaxInstruct = 0
  Faults = {}
SPECIFICATION FairSpec
INVARIANTS
  OneInFlight
  HitlMeansWaiting
PROPERTIES
  QueuedGetsItsTurn
