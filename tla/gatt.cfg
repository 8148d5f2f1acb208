CONSTANTS
  p = p  q = q
  MasterIds = {0}  SlaveIds = {1}  Handles = {1, 2}  Peers = {p, q}  Layout <- TwoLayouts
  Values <- NoZero  Attrs = {3, 5}  Sessions <- SomeHosts
  MaxCommands = 2  MaxLinks = 2  MaxQueue = 2
SPECIFICATION FairSpec
INVARIANTS TypeOK WriteFaithful FreesOwn AnswersLink SubscribesRight
PROPERTIES Answered DiscoveryEnds
CHECK_DEADLOCK FALSE
