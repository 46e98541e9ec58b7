SPECIFICATION CommerceSpec
CONSTANTS
  l1 = l1
  l2 = l2
  e1 = e1
  c1 = c1
  h1 = h1
  s1 = s1
  s2 = s2
  n1 = n1
  n2 = n2
  b1 = b1
  i1 = i1
  i2 = i2
  i3 = i3
  Charges = {l1, l2}
  Captures = {e1}
  CaptureOf <- MCCaptureOf
  Drafts = {d1, d2}
  Clerks = {k1, k2}
  MaxPaymentFaults = 1
  Plans = {p1, p2}
  Presets = {p1}
  Orgs = {o1}
  Desks = {k3, k4}
  TermsMax = 2
  ChargesMax = 2
  Catalogue <- MCCatalogue
  Alias <- MCAlias
  LegacyBaseline = {"customers", "ghost"}
  LegacyKeys = {"customers", "ghost", "campaigns"}
  Configs <- MCDrafts
  Packs = {"jewelry"}
  LastTick = 2
  PackPlan <- MCPackPlan
  Written <- MCWritten
  Archetypes <- MCArchetypes
  Answers <- MCAnswers
  Owners = {w1, w2}
  Visitors = {v1, v2}
  PerMin = 1
  FloodWindow = 1
  LastMinute = 1
  Callers_ = {c1, c2}
  IdemKeys = {"k1"}
  Skus = {"s1"}
  MaxItems = 2
  MaxEdits = 1
  Sheet <- MCSheet
  Handlers = {h1, h2}
  Weights = {3, 7}
  RateSet = {655, 1010}
  Discounts = {60}
  MakingPct = 12
  MakingMin = 30
  CeilingPct = 5
  MaxStepPct = 10
  Staleness = 1
  Validities = {1, 2}
  Editors = {r1, r2}
  MaxQuotes = 1
  MaxSnapshots = 2
  LastHour = 1
  Uploads = {u1, u2}
  MaxLapses = 2
  Erasers = {x1, x2}
  Incoming = {y1}
  Annotators = {z1}
  MaxStored = 3
  Nobody = nobody
  Stores = {s1, s2}
  Numbers = {n1, n2}
  Wabas = {b1, b2}
  Rows = {1, 2}
  OwnerRequests = {q1, q2}
  OperatorRequests = {q3}
  Wirings <- MCWirings
  NoWaba = nowaba
  Shop = s1
  Submitters = {t1}
  Drainers = {g1, g2}
  MaxTexts = 2
  MaxReviews = 2
  Installs = {i1, i2, i3}
  PackOf <- MCPackOf
  Requires <- MCRequires
  Files <- MCFiles
  Swaps = {a1, a2}
  PromptRuns = {j1}
  MaxChanges = 2
  Tenants = {s1, s2}
  Operators = {o2, o3}
  PlatformRoles = {"staff", "analyst"}
  Patches <- MCPatches
  OperatorCalls = {f1, f2}
  MaxTickets = 1
  MaxGrants = 2
INVARIANTS MoneyAccounted ShopfrontTrue
PROPERTY TermsHold
CHECK_DEADLOCK FALSE
