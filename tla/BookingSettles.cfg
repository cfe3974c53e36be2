SPECIFICATION FairSpec
CONSTANTS
  g1 = g1
  g2 = g2
  s1 = s1
  s2 = s2
  Gpu = {g1}
  NoGpu = NoGpu
  MemTotal <- MCMemTotal
  MaxHours = 2
  Grace = 1
  TimesAware = TRUE
  Session = {s1, s2}
  CreateRequests <- SettleCreates
  EditRequests <- SettleEdits
  MaxTime = 1
  MaxRows = 3
  Servers <- OneServer
  Horizon = 3
  Asks = {}
CHECK_DEADLOCK FALSE
PROPERTIES
  RequestsSettle
