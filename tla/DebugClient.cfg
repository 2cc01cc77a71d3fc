CONSTANTS
  Radix = 16
  Requests = {}
  PacketSize = 8
  BufferSize = 16
  MaxBatch = 1
  MaxBytes = 1
  StrayCells = {1}
  StrayBytes = {0, 9}
  MaxBatches = 3
  Inputs <- Entries
  Known <- NotAsSaid
  Files <- AllFiles
  MaxValues = 8
  MaxFds = 8
  MaxUnplugs = 1
SPECIFICATION ClientSpec
INVARIANTS Truthful Undisturbed
PROPERTY Returns
CHECK_DEADLOCK FALSE
