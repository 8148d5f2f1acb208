CONSTANTS
  n1 = n1  n2 = n2  long = long  m1 = m1  u1 = u1  d1 = d1  d2 = d2  d3 = d3  x = x  y = y
  GATT_HANDLE_MAX_NUM = 10  AVG = 2  Payloads = {x, y}  PayloadLen <- Length  MaxWrites = 3
  ADV_REPORT_NUM = 2  Reports <- SomeReports  Filters <- SomeFilters
  Names = {n1, long}  LongNames = {long}  Macs = {m1}  Uuids = {u1}  Uarts <- SomeUarts
  Intervals <- SomeIntervals  Ids = {0, 1}  Handles = {1, 2}  Settings <- SomeSettings
  Sessions <- Naming
  MaxCommands = 4  MaxPowerLoss = 1  MaxLinks = 2
SPECIFICATION Spec
PROPERTY NameAlone
CHECK_DEADLOCK FALSE
