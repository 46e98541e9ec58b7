SPECIFICATION FairSpec
CONSTANTS
  e1 = e1
  g1 = g1
  c1 = c1
  c2 = c2
  p1 = p1
  p2 = p2
  Events = {e1}
  Groups = {g1}
  Consumers = {c1, c2}
  GroupOf <- OneGroup
  Publishers = {p1, p2}
  DlqAfter = 1
  MaxEntries = 2
  MaxRaises = 2
  MaxCrashes = 1
  MaxReplays = 1
  MaxPrunes = 1
INVARIANTS TypeOK RepeatsAccounted OneHandler BuriedAfterLimit NothingLost
PROPERTIES EventsLand ImplementsDelivery
CHECK_DEADLOCK FALSE
