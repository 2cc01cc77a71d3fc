CONSTANTS
  Bytes <- MCBytes
  Words <- MCWords
  Offsets <- MCOffsets
  Jumps <- MCJumps
  Sources <- MCSources
  Misprinted = FALSE
  Aliased = FALSE
  Misplaced = FALSE
  Unmarked = FALSE
  Shifted = FALSE
SPECIFICATION Spec
INVARIANTS SameBinary ForwardAsKnown ListingFaithful
CHECK_DEADLOCK FALSE
