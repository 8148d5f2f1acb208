CONSTANTS
  m = m  m2 = m2  s = s  s2 = s2  NoLink = NoLink
  AT_RECV_MAX_LEN = 4  AT_TRANSPARENT_DOWN_LEVEL = 1
  MasterLinks = {m, m2}  SlaveLinks = {}
  MTU = 1  MaxAcl = 1  MaxBurst = 1
  SendLens = {2}
  CmdLines <- OneSlotLines
  DataLines <- TwoBytes
  MaxCmds = 2  MaxData = 2
SPECIFICATION Spec
INVARIANT OneSlotWillEnd
CHECK_DEADLOCK FALSE
