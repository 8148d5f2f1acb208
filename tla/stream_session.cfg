CONSTANTS
  m = m  m2 = m2  s = s  s2 = s2  NoLink = NoLink
  AT_RECV_MAX_LEN = 6  AT_TRANSPARENT_DOWN_LEVEL = 3
  MasterLinks = {m}  SlaveLinks = {}
  MTU = 2  MaxAcl = 1  MaxBurst = 2
  SendLens = {1}
  CmdLines <- TransparentLines
  DataLines <- PlusAndData
  MaxCmds = 2  MaxData = 2
SPECIFICATION Spec
INVARIANTS TypeOK TargetKnown OngoingCovered NoLostWakeup MaskedPopExact
 
CHECK_DEADLOCK FALSE
