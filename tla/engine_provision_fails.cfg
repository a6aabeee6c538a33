CONSTANTS
  Pipeline <- OneStage
  NRuns = 1
  MaxCmds = 9
  MaxDup = 0
  MaxLoss = 0
  MaxExpire = 0
  MaxInstruct = 0
  Faults = {"provision_fails"}
SPECIFICATION FairSpec
PROPERTIES
  RunSettles
