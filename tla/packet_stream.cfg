SPECIFICATION FairSpec
CONSTANTS
  Size = 4
  Header = 2
  Lengths = {3, 5}
  Garbled = {0, 1, 4}
  MaxPackets = 3
  MaxLosses = 1
INVARIANT DeliveredAsSent
PROPERTY EveryPacketArrives
CHECK_DEADLOCK FALSE
