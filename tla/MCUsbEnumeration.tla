------------------------- MODULE MCUsbEnumeration -------------------------
(* Buffer sizes of endpoints 0 .. 3 in units of 8 bytes, which all of them *)
(* are multiples of: 64 + 64 for control, 8 for EP1, 64 for EP2 and EP3.   *)
EXTENDS UsbEnumeration

MCTxSize == [n \in Endpoints |-> CASE n = 0 -> 8 [] n = 1 -> 1 [] n = 2 -> 0 [] n = 3 -> 8]
MCRxSize == [n \in Endpoints |-> CASE n = 0 -> 8 [] n = 1 -> 0 [] n = 2 -> 8 [] n = 3 -> 0]
===========================================================================
