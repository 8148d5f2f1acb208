CONSTANTS
  COM_IN = 2  THRESHOLD = 2  BLE_IN = 2  TMR_CLK_1S_COUNT = 2  CountReset = 3
  RxFifo = 2  WaterLevel = 2  Mtu = 2  PacketLens <- OneOrTwo  Sessions <- Short
SPECIFICATION FairSpec
INVARIANTS TypeOK PeerGetsHostBytes CommandsOnce HostGetsPeerBytes
PROPERTY BytesLeave
CHECK_DEADLOCK FALSE
