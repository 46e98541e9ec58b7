SPECIFICATION RuntimeSpec
CONSTANTS
  Runs = {r1}
  Drivers = {d1, d2}
  Asks = {"k1", "k2"}
  Tools = {"messages.send", "landing_page.publish"}
  Gated = {"messages.send", "landing_page.publish"}
  MaxToolCalls = 2
  MaxSteps = 6
  CircuitThreshold = 2
  StepRetries = 1
  MaxFaults = 1
INVARIANTS GatedNeedsConsent RunsAccounted
CHECK_DEADLOCK FALSE
