------------------------- MODULE EndpointRegister -------------------------
(***************************************************************************)
(* The STAT_RX and STAT_TX fields of the STM32 USB endpoint registers      *)
(* (EPnR), as the firmware uses them: a field is the set of its bits that  *)
(* are 1, and writing it flips the bits written as 1.  The hardware sets   *)
(* the field to NAK when it has completed a transaction.                   *)
(***************************************************************************)

DISABLED == {}
STALL == {0}
NAK == {1}
VALID == {0, 1}

Stat == SUBSET {0, 1}

\* XOR of two fields; also what a field holds after a write of bits.
Flip(field, bits) == (field \ bits) \cup (bits \ field)
===========================================================================
