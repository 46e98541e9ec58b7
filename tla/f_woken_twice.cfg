SPECIFICATION Spec
CONSTANTS
  Drivers = {"starter", "reply", "sweep"}
  Role <- MCRole
  Program <- JustWait
  Policy = "none"
  HasBlock = FALSE
  Compensators = 0
  Expiry = FALSE
  MaxRuns = 1
  MaxApprovals = 1
  MaxSubs = 1
  MaxFailures = 0
  MaxResumes = 0
INVARIANTS WokenOnce
CHECK_DEADLOCK FALSE
