CONSTANTS
  Pipeline <- LoopPipeline
  NRuns = 1
  MaxCmds = 14
  MaxDup = 0
  MaxLoss = 1
  MaxExpire = 1
  MaxInstruct = 1
  Faults = {}
SPECIFICATION FairSpec
INVARIANTS
  TypeOK
  OutcomeMatchesRow
  NothingPendingAtTerminal
  PausedWaitsForHuman
  OneCommandOutstanding
PROPERTIES
  RunSettles
