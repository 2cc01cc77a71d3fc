CONSTANTS
  Block = 4
  Capacity = 5
  Plans <- Pipelining
  MaxPackets = 2
SPECIFICATION FairSpec
PROPERTY EachAnswered
CHECK_DEADLOCK FALSE
