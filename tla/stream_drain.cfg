CONSTANTS
  m = m  m2 = m2  s = s  s2 = s2  NoLink = NoLink
  AT_RECV_MAX_LEN = 5  AT_TRANSPARENT_DOWN_LEVEL = 2
  MasterLinks = {m}  SlaveLinks = {s}
  MTU = 2  MaxAcl = 1  MaxBurst = 2
  SendLens = {1}
  CmdLines <- TransparentLines
  DataLines <- OneByte
  MaxCmds = 2  MaxData = 3
SPECIFICATION FairSpec
PROPERTIES  BufferedBytesMove
CHECK_DEADLOCK FALSE
