\* One sender, re-executed after a crash; three episodes, a cap of one touch.
CONSTANTS
  Senders = {s1}
  Attempts = {a1, a2, a3}
  TouchCap = 1
  MaxRetries = 1
  MaxEpisode = 2
  MaxSweeps = 3
  MaxOutreachFaults = 1
SPECIFICATION MCOutreachSpec
INVARIANTS SendsAccounted CustomerLeftAlone
CHECK_DEADLOCK FALSE
