SPECIFICATION FairSpec
CONSTANTS
  Drivers = {"starter", "human", "tool", "sweep"}
  Role <- MCRole
  Program <- HoldThenTool
  Policy = "drop"
  HasBlock = FALSE
  Compensators = 0
  Expiry = TRUE
  MaxRuns = 1
  MaxApprovals = 2
  MaxSubs = 1
  MaxFailures = 0
  MaxResumes = 0
INVARIANTS ToolGate
PROPERTIES TimedWaitsEnd DecisionsLand
CHECK_DEADLOCK FALSE
