CONSTANTS
  a = a  b = b  c = c  NoAddr = NoAddr  INVALID_HANDLE = INVALID_HANDLE
  MAX_CONN_AS_MASTER = 2  TOTAL_CONN_NUM = 3
  LL_MAX_CONN_NUM_DEFAULT = 1  NumHandles = 2
  Addrs = {a, b}  Commands <- DialAndClose  MaxQueue = 1
SPECIFICATION Spec
INVARIANTS TableExact
CHECK_DEADLOCK FALSE
SYMMETRY Permuted
