SPECIFICATION MCAgentPlaneSpec
CONSTANTS
  d2 = d2
  AgentTools = {"messages.send", "web.fetch"}
  Rules <- MCRules
  Approvals = {"k1"}
  CleanWindow = 1
  TightenFor = 2
  Horizon = 2
  MaxTurns = 2
  MaxIncidents = 2
  Callers = {d1, d2}
  CallsPerMin = 1
  SendsDay = 1
  MaxViolations = 1
  MaxSends = 1
  MaxChanges = 1
  Members = {1, 2}
  Batches = {b1, b2}
  Requests = {q1, q2}
  HourlyRate = 1
  HaltMin = 1
  MaxHours = 1
  MaxLapses = 1
  Posts = {1, 2, 3}
  Wamids = {"w1", "w2", "w3"}
  Senders = {"s1", "s2"}
  Content <- MCContent
  Workers = {n1, n2}
  MaxStops = 2
  MaxIngressFaults = 2
  Stores = {g1}
  PackRows = {p1}
  Digests = {x1, x2}
  Installers = {t1, t2}
  MaxFaults = 2
  Writers = {v1, v2}
  Values = {y1, y2}
  DefaultValue = y0
  MaxEntries = 3
  MaxAnchors = 1
  Identifiers = {i1}
  Sessions = {s1, s2}
  Calls = {c1, c2}
  MaxTries = 1
  MaxCodes = 1
  MaxTokens = 3
  People = {u1, u2}
  Shops = {o1}
  MaxInvites = 3
  Recruiters = {k1, k2}
  SeatsMax = 1
  Offered = {"manager", "viewer"}
  Schedulers = {"first", "second"}
  Ahead <- Skewed
  Jobs <- Daily
  Due <- DailyDue
  Durations <- Lasting
  Minute = 4
  Tick = 4
  Ttl = 6
  LastInstant = 20
  MaxDeaths = 1
  Links = {"la", "lb"}
  SeededChains <- MCSeededChains
  FallbackChain <- MCFallback
  TurnsPerRun = 2
  MaxDeliveries = 2
  MaxRouteChanges = 1
  Reasons = {"rate", "family"}
  StatedReasons = {"rate", "family", "invented"}
  Confidences = {3, 7, 12, 99}
  Threshold = 6
  MaxShifts = 1
  Texts <- MCTexts
  Recorded <- MCRecorded
  Submissions <- MCSubmissions
  PackTexts <- MCPackTexts
  Authors = {a1, a2}
  OwnerLimit = 1
  MaxActivations = 2
  MaxApplied = 1
  MaxWrites = 3
INVARIANTS AgentsStayInBounds MessagesAccounted StoreHoldsTogether ProgramsAreVouched
PROPERTIES EndedStaysEnded JobsFireOnce
CHECK_DEADLOCK FALSE
