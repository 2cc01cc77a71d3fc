CONSTANTS
  Programs <- MCPrograms
  LocalNames <- MCLocalNames
  Legal <- MCLegal
  Known = {}
SPECIFICATION Spec
INVARIANTS AsWritten CountersLive
PROPERTY Finishes
CHECK_DEADLOCK FALSE
