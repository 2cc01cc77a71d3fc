CONSTANTS
  AWidth = 2
  DWidth = 1
  Plans <- Sessions
SPECIFICATION Spec
INVARIANTS NoContention HeldInReset NoDataFight Served ReleaseFrees
PROPERTY OnlyWrites
