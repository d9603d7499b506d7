SPECIFICATION StepFourFairSpec
CONSTANTS
  Controls = 2
  Type = {"transfer_sqb_combo"}
  NoType = "none"
  Resolutions = {{}, {"cleanup", "sqb", "transfer"}}
  Accounts = 2
  Target = 1
  Skippable = {2}
  MaxFailures = 2
CHECK_DEADLOCK FALSE
INVARIANTS StepFourTypeOK OverIsTerminal
PROPERTIES TransferOnce NobodyForgotten TerminatedCloses
