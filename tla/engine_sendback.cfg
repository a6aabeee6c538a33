CONSTANTS
  Pipeline <- SendBackPipeline
  NRuns = 1
  MaxCmds = 16
  MaxDup = 0
  MaxLoss = 0
  MaxExpire = 1
  MaxInstruct = 1
  Faults = {}
SPECIFICATION Spec
INVARIANTS
  NoLiveWorkspaceAbandoned
  RevisionReachesItsStage
