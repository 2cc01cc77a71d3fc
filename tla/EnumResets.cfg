CONSTANTS
  TxSize <- MCTxSize
  RxSize <- MCRxSize
  LASTADDR_DEFAULT = 8
  USB_BTABLE_SIZE = 64
  Addresses = {1, 2}
  EarlyDescriptor = TRUE
  MaxResets = 2
  MaxConfigs = 4
SPECIFICATION FairSpec
INVARIANTS TypeOK BuffersDisjoint AddressAgrees ReadyForUse
PROPERTIES Configures
CHECK_DEADLOCK FALSE
