-------------------------- MODULE UsbEnumeration --------------------------
(***************************************************************************)
(* How the USB device of debug/bluepill gets from a bus reset to           *)
(* CONNECTED: the reset and EP0 interrupts (usbhw.c, usb_lib.c), the       *)
(* allocation of packet memory by EP_Init, which the reset interrupt and   *)
(* the main loop both perform on the shared counter lastaddr, and the PC   *)
(* that enumerates, reconfigures and resets the device.                    *)
(*                                                                         *)
(* lastaddr is not volatile, so every use of it in EP_Init may read memory *)
(* or a register that an earlier use has loaded: both are modelled.        *)
(***************************************************************************)
EXTENDS Integers, FiniteSets

CONSTANTS
  TxSize, RxSize,      \* buffer sizes of the endpoints 0 .. 3
  LASTADDR_DEFAULT,    \* end of the buffer table, where allocation starts
  USB_BTABLE_SIZE,     \* bytes of packet memory
  Addresses,           \* addresses the PC may assign
  EarlyDescriptor,     \* does the PC read a descriptor before SET_ADDRESS?
  MaxResets,           \* bound: bus resets
  MaxConfigs           \* bound: SET_CONFIGURATION requests

Endpoints == 0 .. 3

ASSUME EnumAssumption ==
  /\ TxSize \in [Endpoints -> Nat] /\ RxSize \in [Endpoints -> Nat]
  /\ {LASTADDR_DEFAULT, USB_BTABLE_SIZE, MaxResets, MaxConfigs} \subseteq Nat
  /\ Addresses \subseteq Nat \ {0}
  /\ EarlyDescriptor \in BOOLEAN

VARIABLES
  status, USB_Addr, DADDR,   \* device state, requested and current address
  lastaddr, txaddr, rxaddr,  \* allocation counter; where buffers were placed
  enabled,                   \* endpoints whose register is not DISABLED
  pc, ep, tmp,               \* main loop: step, endpoint, loaded lastaddr
  valid,                     \* its register was read as not DISABLED
  host, hostaddr,            \* progress of the PC, the address it uses
  transfer,                  \* control transfer under way on EP0
  resets, configs

device == <<status, USB_Addr, DADDR>>
memory == <<lastaddr, txaddr, rxaddr, enabled>>
main == <<pc, ep, tmp, valid>>
pcside == <<host, hostaddr, transfer, resets, configs>>
vars == <<device, memory, main, pcside>>

Init ==
  /\ status = "DEFAULT" /\ USB_Addr = 0 /\ DADDR = 0
  /\ lastaddr = LASTADDR_DEFAULT
  /\ txaddr = [n \in Endpoints |-> 0] /\ rxaddr = [n \in Endpoints |-> 0]
  /\ enabled = {}
  /\ pc = "idle" /\ ep = 0 /\ tmp = 0 /\ valid = FALSE
  /\ host = "powered" /\ hostaddr = 0 /\ transfer = "none"
  /\ resets = 0 /\ configs = 0

---------------------------------------------------------------------------
(* Main loop: usb_proc with the calls EP_Init(1), EP_Init(2), EP_Init(3).  *)

usb_proc ==
  /\ pc = "idle" /\ status = "CONFIGURED"
  /\ pc' = "check" /\ ep' = 1
  /\ UNCHANGED <<tmp, valid, device, memory, pcside>>

\* Mutant: usb_proc initialises one endpoint too many.
Following_OneMore == IF ep <= 3 THEN pc' = "check" /\ ep' = ep + 1
                                ELSE pc' = "connect" /\ UNCHANGED ep

Following == IF ep < 3 THEN pc' = "check" /\ ep' = ep + 1
                       ELSE pc' = "connect" /\ UNCHANGED ep

Fits == lastaddr + TxSize[ep] + RxSize[ep] < USB_BTABLE_SIZE

\* EP_Init: the tests; what usb_proc does not look at is the return value.
EP_Init_check ==
  /\ pc = "check"
  /\ \/ /\ Fits
        /\ tmp' = lastaddr
        /\ pc' = "read"
        /\ UNCHANGED ep
     \/ /\ ~Fits
        /\ Following
        /\ UNCHANGED tmp
  /\ UNCHANGED <<valid, device, memory, pcside>>

\* The register is read and written back with two fields inverted.  They
\* toggle by the bits written, so the endpoint is enabled, unless a reset that
\* came in between has disabled one that was enabled when it was read.
EP_Init_read ==
  /\ pc = "read" /\ pc' = "write"
  /\ valid' = (ep \in enabled)
  /\ UNCHANGED <<ep, tmp, device, memory, pcside>>
EP_Init_write ==
  /\ pc = "write" /\ pc' = "tx"
  /\ enabled' = IF valid THEN enabled ELSE enabled \cup {ep}
  /\ UNCHANGED <<ep, tmp, valid, device, lastaddr, txaddr, rxaddr, pcside>>

\* The address and the addition of one step use the same value: a reset that
\* comes between them has disabled the endpoint, so its address is not used.
EP_Init_tx ==
  /\ pc = "tx"
  /\ \E start \in {tmp, lastaddr} :
       /\ txaddr' = [txaddr EXCEPT ![ep] = start]
       /\ tmp' = start + TxSize[ep]
       /\ lastaddr' = start + TxSize[ep]
  /\ pc' = "rx"
  /\ UNCHANGED <<device, ep, valid, rxaddr, enabled, pcside>>

\* Mutant: the reception buffer is not added to lastaddr.
EP_Init_rx_NoAdvance ==
  /\ pc = "rx"
  /\ \E start \in {tmp, lastaddr} : rxaddr' = [rxaddr EXCEPT ![ep] = start]
  /\ Following
  /\ UNCHANGED <<device, tmp, valid, lastaddr, txaddr, enabled, pcside>>

EP_Init_rx ==
  /\ pc = "rx"
  /\ \E start \in {tmp, lastaddr} :
       /\ rxaddr' = [rxaddr EXCEPT ![ep] = start]
       /\ lastaddr' = start + RxSize[ep]
  /\ Following
  /\ UNCHANGED <<device, tmp, valid, txaddr, enabled, pcside>>

\* Mutant: usb_proc leaves USB_Status alone.
connect_NoStatus ==
  /\ pc = "connect"
  /\ pc' = "idle"
  /\ UNCHANGED <<device, ep, tmp, valid, memory, pcside>>

connect ==
  /\ pc = "connect"
  /\ status' = "CONNECTED"
  /\ pc' = "idle"
  /\ UNCHANGED <<USB_Addr, DADDR, ep, tmp, valid, memory, pcside>>

Main ==
  \/ usb_proc \/ connect
  \/ EP_Init_check \/ EP_Init_read \/ EP_Init_write \/ EP_Init_tx \/ EP_Init_rx

---------------------------------------------------------------------------
(* Interrupts, each with the event on the bus that raises it.              *)

\* Mutant: the reset handler does not start the allocation again.
BusReset_KeepsLastaddr ==
  /\ resets < MaxResets
  /\ resets' = resets + 1
  /\ DADDR' = 0 /\ status' = "DEFAULT"
  /\ txaddr' = [txaddr EXCEPT ![0] = lastaddr]
  /\ rxaddr' = [rxaddr EXCEPT ![0] = lastaddr + TxSize[0]]
  /\ lastaddr' = lastaddr + TxSize[0] + RxSize[0]
  /\ enabled' = {0}
  /\ host' = "reset" /\ hostaddr' = 0 /\ transfer' = "none"
  /\ UNCHANGED <<USB_Addr, main, configs>>

\* The hardware disables every endpoint; the handler starts the allocation
\* again with EP_Init(0).  USB_Addr keeps the address of before.
BusReset ==
  /\ resets < MaxResets
  /\ resets' = resets + 1
  /\ DADDR' = 0 /\ status' = "DEFAULT"
  /\ txaddr' = [txaddr EXCEPT ![0] = LASTADDR_DEFAULT]
  /\ rxaddr' = [rxaddr EXCEPT ![0] = LASTADDR_DEFAULT + TxSize[0]]
  /\ lastaddr' = LASTADDR_DEFAULT + TxSize[0] + RxSize[0]
  /\ enabled' = {0}
  /\ host' = "reset" /\ hostaddr' = 0 /\ transfer' = "none"
  /\ UNCHANGED <<USB_Addr, main, configs>>

\* A SETUP packet reaches a device that answers to the PC's address.  A PC
\* takes milliseconds between requests, so the main loop is done with the
\* last one (UsbDevice has the case in which usb_send keeps it).
Setup(request) ==
  /\ host # "powered" /\ transfer = "none" /\ DADDR = hostaddr
  /\ pc = "idle" /\ status # "CONFIGURED"
  /\ transfer' = request
  /\ UNCHANGED <<DADDR, memory, main, host, hostaddr, resets>>

GetDescriptor ==
  /\ Setup("descriptor")
  /\ host # "reset" \/ EarlyDescriptor
  /\ UNCHANGED <<status, USB_Addr, configs>>

\* Mutant: the new address is used at once, before the acknowledgement.
SetAddress_AtOnce ==
  /\ host = "reset" /\ transfer = "none" /\ DADDR = hostaddr
  /\ pc = "idle" /\ status # "CONFIGURED"
  /\ transfer' = "address"
  /\ \E address \in Addresses : USB_Addr' = address /\ DADDR' = address
  /\ UNCHANGED <<status, configs, memory, main, host, hostaddr, resets>>

SetAddress ==
  /\ Setup("address")
  /\ host = "reset"
  /\ USB_Addr' \in Addresses
  /\ UNCHANGED <<status, configs>>

SetConfiguration ==
  /\ Setup("configuration")
  /\ host \in {"addressed", "configured"} /\ configs < MaxConfigs
  /\ configs' = configs + 1
  /\ status' = "CONFIGURED"
  /\ UNCHANGED USB_Addr

\* EP0 has sent data or an acknowledgement (TX_FLAG in EP0_Handler).
EP0_transmitted ==
  /\ transfer \in {"descriptor", "address", "configuration"}
  /\ IF DADDR # USB_Addr
       THEN DADDR' = USB_Addr /\ status' = "ADDRESSED"
       ELSE UNCHANGED <<DADDR, status>>
  /\ CASE transfer = "address" ->
            host' = "addressed" /\ hostaddr' = USB_Addr /\ transfer' = "none"
       [] transfer = "configuration" ->
            host' = "configured" /\ transfer' = "none" /\ UNCHANGED hostaddr
       [] transfer = "descriptor" ->
            transfer' = "acknowledge" /\ UNCHANGED <<host, hostaddr>>
  /\ UNCHANGED <<USB_Addr, memory, main, resets, configs>>

\* The PC acknowledges the data it has read (no change in the device).
EP0_received ==
  /\ transfer = "acknowledge" /\ DADDR = hostaddr
  /\ transfer' = "none"
  /\ UNCHANGED <<device, memory, main, host, hostaddr, resets, configs>>

Next ==
  \/ Main
  \/ BusReset \/ GetDescriptor \/ SetAddress \/ SetConfiguration
  \/ EP0_transmitted \/ EP0_received

Spec == Init /\ [][Next]_vars

\* The main loop never stops.
FairSpec == Spec /\ WF_vars(Main)

---------------------------------------------------------------------------

\* Types, and lastaddr within the packet memory.
TypeOK ==
  /\ status \in {"DEFAULT", "ADDRESSED", "CONFIGURED", "CONNECTED"}
  /\ {USB_Addr, DADDR, hostaddr} \subseteq Addresses \cup {0}
  /\ lastaddr \in LASTADDR_DEFAULT .. USB_BTABLE_SIZE - 1
  /\ {txaddr, rxaddr} \subseteq [Endpoints -> 0 .. USB_BTABLE_SIZE - 1]
  /\ enabled \subseteq Endpoints
  /\ pc \in {"idle", "check", "read", "write", "tx", "rx", "connect"}
  /\ ep \in Endpoints /\ tmp \in 0 .. USB_BTABLE_SIZE - 1 /\ valid \in BOOLEAN
  /\ host \in {"powered", "reset", "addressed", "configured"}
  /\ transfer \in {"none", "descriptor", "address", "configuration", "acknowledge"}

Span(start, size) == start .. start + size - 1
TxBytes(n) == Span(txaddr[n], TxSize[n])
RxBytes(n) == Span(rxaddr[n], RxSize[n])
Bytes(n) == TxBytes(n) \cup RxBytes(n)

Connected == host = "configured" /\ status = "CONNECTED"

\* The packet buffers of a connected device do not overlap, and stay clear of
\* the buffer table, whatever resets have interrupted EP_Init in usb_proc.
BuffersDisjoint ==
  Connected =>
    /\ \A n \in enabled :
         /\ TxBytes(n) \cap RxBytes(n) = {}
         /\ Bytes(n) \subseteq LASTADDR_DEFAULT .. USB_BTABLE_SIZE - 1
    /\ \A n, m \in enabled : n # m => Bytes(n) \cap Bytes(m) = {}

\* The device answers to the address the PC uses, from SET_ADDRESS on in any
\* case: what the reset handler leaves in USB_Addr makes it answer to an old
\* address at most while the PC waits for the end of a descriptor it has asked
\* for before SET_ADDRESS, and the next reset ends that.
AddressAgrees ==
  \/ DADDR = hostaddr
  \/ host = "reset" /\ transfer = "acknowledge" /\ DADDR = USB_Addr

\* "new address will be assigned later - after acknowlegement or request to
\* host" (usb_lib.c:258-259): it changes with the acknowledgement of
\* SET_ADDRESS and with nothing else.
AssignedLater == DADDR = hostaddr

\* Every configuration allocates endpoints 1 to 3 again, above what the ones
\* before have taken, and after a reset EP_Init may put back a value of
\* lastaddr from before it: what all configurations since power-on need.
End0 == LASTADDR_DEFAULT + TxSize[0] + RxSize[0]
Size(n) == TxSize[n] + RxSize[n]
Round == Size(1) + Size(2) + Size(3)
Sufficient == End0 + configs * Round < USB_BTABLE_SIZE

\* A connected device is "ready for use" (USB_state in usb_lib.h): EP_Init
\* has succeeded, since the last reset, for every endpoint, although usb_proc
\* does not look at its result - as long as the packet memory is sufficient
\* for every configuration so far.
ReadyForUse == Connected /\ Sufficient => enabled = Endpoints

\* Every SET_CONFIGURATION ends in a connected device, or in a reset.
Configures == status = "CONFIGURED" ~> status \in {"CONNECTED", "DEFAULT"}
===========================================================================
