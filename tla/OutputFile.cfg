CONSTANTS
  Jobs <- MCJobs
  None = None
  Known = {}
SPECIFICATION Spec
INVARIANTS HeaderFinds SnapshotHolds
CHECK_DEADLOCK FALSE
