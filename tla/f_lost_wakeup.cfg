SPECIFICATION Spec
CONSTANTS
  Drivers = {"starter", "sweep"}
  Role <- MCRole
  Program <- JustWait
  Policy = "none"
  HasBlock = FALSE
  Compensators = 0
  Expiry = FALSE
  MaxRuns = 1
  MaxApprovals = 1
  MaxSubs = 1
  MaxFailures = 1
  MaxResumes = 0
INVARIANTS DurableWaits
CHECK_DEADLOCK FALSE
