SPECIFICATION Spec
CONSTANTS
  g1 = g1
  g2 = g2
  s1 = s1
  s2 = s2
  Gpu = {g1, g2}
  NoGpu = NoGpu
  MemTotal <- MCMemTotal
  MaxHours = 2
  Grace = 1
  TimesAware = TRUE
  Session = {s1, s2}
  CreateRequests <- RaceCreates
  EditRequests <- RaceEdits
  MaxTime = 2
  MaxRows = 3
  Servers <- TwoServers
  Horizon = 3
  Asks <- SomeAsks
SYMMETRY Symmetry
CHECK_DEADLOCK FALSE
INVARIANTS
  TypeOK
  CrossRequestExclusive
  CrossRequestCapacity
  RecommendationIsNotLate
  RecommendationHolds
PROPERTIES
  ActiveWindowFrozen
