CONSTANTS
  m = m  m2 = m2  s = s  s2 = s2  NoLink = NoLink
  AT_RECV_MAX_LEN = 5  AT_TRANSPARENT_DOWN_LEVEL = 3
  MasterLinks = {m}  SlaveLinks = {}
  MTU = 1  MaxAcl = 1  MaxBurst = 1
  SendLens = {1}
  CmdLines <- CommandLines
  DataLines <- NoData
  MaxCmds = 3  MaxData = 0
SPECIFICATION Spec
ACTION_CONSTRAINT LinksKept
INVARIANTS CmdFaithful
CHECK_DEADLOCK FALSE
