CONSTANTS
  Block = 4
  Capacity = 5
  Plans <- Traffic
  MaxPackets = 3
SPECIFICATION FairSpec
INVARIANTS TypeOK EndpointsReady InOrder NoWedge BufferOwned NoLostPacket
PROPERTIES RxBufferKept AllAnswered
CHECK_DEADLOCK FALSE
