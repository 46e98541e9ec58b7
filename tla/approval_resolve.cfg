SPECIFICATION FairSpec
CONSTANTS
  Approvals = {a1}
  Requests = {q1, q2}
  Ladders = {l1}
  Tiers = {1, 2, 3}
  MaxAnswers = 3
  MaxFailures = 1
INVARIANTS TypeOK OneDecision AuthorityHolds NoticesAccounted
PROPERTIES ApprovalsEnd
CHECK_DEADLOCK FALSE
