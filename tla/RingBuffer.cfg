CONSTANTS
  Byte = {0, 1}
  Zero = 0
  RBSIZE = 5
  BLOCKSIZE = 3
  MaxInput = 5
  Inputs <- MCInputs
SPECIFICATION Spec
PROPERTIES UnreadKept RingIsQueue
