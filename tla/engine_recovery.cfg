SPECIFICATION Spec
CONSTANTS
  Drivers = {"starter", "starter2", "human", "tool", "reply", "sweep"}
  Role <- MCRole
  Program <- GatedRecovery
  Policy = "drop"
  HasBlock = TRUE
  Compensators = 1
  Expiry = FALSE
  MaxRuns = 2
  MaxApprovals = 3
  MaxSubs = 2
  MaxFailures = 1
  MaxResumes = 0
INVARIANTS TypeOK EffectOnce OneDriverPerRun OneLiveRun CompensateOnce ParkedRunIsWakeable
PROPERTIES HumanGate NoSkippedEffect EndsInOrder
CONSTRAINT Orderly
CHECK_DEADLOCK FALSE
