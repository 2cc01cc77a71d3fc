CONSTANTS
  Radix = 16
  Requests <- Simple
  PacketSize = 8
  BufferSize = 32
  MaxBatch = 2
  MaxBytes = 8
  StrayCells = {1}
  StrayBytes = {0, 9}
  MaxBatches = 2
SPECIFICATION Spec
PROPERTY Serves
CHECK_DEADLOCK FALSE
