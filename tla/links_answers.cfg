CONSTANTS
  a = a  b = b  c = c  NoAddr = NoAddr  INVALID_HANDLE = INVALID_HANDLE
  MAX_CONN_AS_MASTER = 1  TOTAL_CONN_NUM = 3
  LL_MAX_CONN_NUM_DEFAULT = 2  NumHandles = 2
  Addrs = {a, b}  Commands <- NotDialling  MaxQueue = 2
SPECIFICATION FairSpec
INVARIANTS TypeOK AdvNotPhantom
PROPERTY CommandEnds
CHECK_DEADLOCK FALSE
