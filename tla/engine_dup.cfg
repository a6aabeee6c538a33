CONSTANTS
  Pipeline <- OneStage
  NRuns = 1
  MaxCmds = 10
  MaxDup = 1
  MaxLoss = 1
  MaxExpire = 1
  MaxInstruct = 1
  Faults = {"provision_fails", "agent_forgets", "agent_lost", "late_cancel"}
SPECIFICATION Spec
INVARIANTS
  ParkedOnItsExecution
  SingleFlight
  HandlersApplicable
PROPERTIES
  CancelIsHeeded
  TerminalIsFinal
CHECK_DEADLOCK FALSE
