CONSTANTS
  Scancodes = {32, 240}
  Numbers <- MCNumbers
  MaxKeys = 2
SPECIFICATION Spec
INVARIANTS ConsoleText NoGhostKeys
PROPERTY Reported
CHECK_DEADLOCK FALSE
