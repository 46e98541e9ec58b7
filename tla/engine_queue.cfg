SPECIFICATION Spec
CONSTANTS
  Drivers = {"starter", "reply", "operator"}
  Role <- MCRole
  Program <- WaitThenStep
  Policy = "queue"
  HasBlock = FALSE
  Compensators = 0
  Expiry = FALSE
  MaxRuns = 3
  MaxApprovals = 1
  MaxSubs = 3
  MaxFailures = 1
  MaxResumes = 1
PROPERTIES EndPromotes PromotedOldestFirst
CHECK_DEADLOCK FALSE
