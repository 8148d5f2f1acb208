CONSTANTS
  p = p  q = q  r = r  m = m  h1 = h1  h2 = h2  INVALID_HANDLE = INVALID_HANDLE
  Peers = {p, q, r}  Bare = {r}  Macs = {m}  Handles = {h1, h2}  Saved <- MasterBefore
  MaxCommands = 1  MaxQueue = 2
SPECIFICATION FairSpec
INVARIANTS TypeOK AckedSurvives NeverIdle TargetExists ConnectMeansReady
PROPERTY DialsNewPeer
CHECK_DEADLOCK FALSE
