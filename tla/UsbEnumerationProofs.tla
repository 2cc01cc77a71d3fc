----------------------- MODULE UsbEnumerationProofs -----------------------
(***************************************************************************)
(* Proofs about UsbEnumeration: for any buffer sizes, any number of bus    *)
(* resets at any step of EP_Init and any number of reconfigurations, the   *)
(* allocation stays within the packet memory (MemoryBounded) and gives a   *)
(* connected device disjoint buffers (BuffersStayDisjoint); it has all its *)
(* endpoints as long as the memory is sufficient for every configuration   *)
(* so far (AllEndpointsReady); and the device answers to the address the PC uses, *)
(* except where a PC has read a descriptor right after a reset             *)
(* (AddressFollows).                                                       *)
(***************************************************************************)
EXTENDS UsbEnumeration, TLAPS

\* Where the buffers of an endpoint end.
End(n) == rxaddr[n] + RxSize[n]

\* The packet memory has room for endpoint 0 and any one other endpoint.
Roomy ==
  /\ End0 < USB_BTABLE_SIZE
  /\ \A n \in Endpoints : End0 + TxSize[n] + RxSize[n] < USB_BTABLE_SIZE

---------------------------------------------------------------------------
(* Bounds: a value of lastaddr that EP_Init has tested stays good while    *)
(* it is used, even if the reset handler replaces lastaddr meanwhile.      *)

Allocating == {"read", "write", "tx", "rx"}

Room ==
  /\ pc \in {"read", "write", "tx"} => \A start \in {tmp, lastaddr} :
       start + TxSize[ep] + RxSize[ep] < USB_BTABLE_SIZE
  /\ pc = "rx" => \A start \in {tmp, lastaddr} :
                    start + RxSize[ep] < USB_BTABLE_SIZE
  /\ pc \in Allocating => tmp >= LASTADDR_DEFAULT

Bounded == TypeOK /\ Room

---------------------------------------------------------------------------
(* Placement: the endpoints whose buffers are complete lie one after the   *)
(* other below lastaddr and below the value EP_Init goes on with.          *)

Done == enabled \ (IF pc \in Allocating THEN {ep} ELSE {})

Placed(n) ==
  /\ LASTADDR_DEFAULT <= txaddr[n]
  /\ rxaddr[n] = txaddr[n] + TxSize[n]
  /\ End(n) <= lastaddr

Apart(n, m) == End(n) <= txaddr[m] \/ End(m) <= txaddr[n]

\* EP_Init at work on an endpoint that no reset has disabled since.
Underway ==
  /\ pc = "rx" /\ ep \in enabled =>
       /\ tmp = lastaddr /\ LASTADDR_DEFAULT <= txaddr[ep]
       /\ txaddr[ep] + TxSize[ep] = lastaddr
       /\ \A n \in Done : End(n) <= txaddr[ep]
  /\ pc \in Allocating => \A n \in Done : End(n) <= tmp

\* Only endpoint 0 is left after a reset, and it is where it always is.
Control ==
  /\ host # "powered" => /\ 0 \in enabled
                         /\ End(0) = End0
  /\ host = "powered" =>
       pc = "idle" /\ status = "DEFAULT" /\ enabled = {} /\ transfer = "none"
  /\ pc # "idle" => ep # 0
  /\ pc \in Allocating => tmp >= End0
  /\ status = "CONNECTED" => pc = "idle"

Allocated ==
  /\ \A n \in Done : Placed(n)
  /\ \A n, m \in Done : n # m => Apart(n, m)
  /\ Underway
  /\ Control

---------------------------------------------------------------------------
(* Addresses: USB_Addr differs from the address the PC uses only while the *)
(* acknowledgement of SET_ADDRESS is under way, or right after a reset,    *)
(* where the PC may read a descriptor and send nothing else with it.       *)

Addressing ==
  /\ AddressAgrees
  /\ host \in {"powered", "reset", "addressed", "configured"}
  /\ transfer = "address" => host = "reset" /\ DADDR = hostaddr
  /\ transfer = "descriptor" => host # "powered" /\ DADDR = hostaddr
  /\ transfer = "configuration" => host \in {"addressed", "configured"}
  /\ transfer = "acknowledge" => host # "powered"
  /\ host \in {"addressed", "configured"} => USB_Addr = hostaddr
---------------------------------------------------------------------------

LEMMA Constants ==
  ASSUME Roomy
  PROVE  /\ TxSize \in [Endpoints -> Nat] /\ RxSize \in [Endpoints -> Nat]
         /\ LASTADDR_DEFAULT \in Nat /\ USB_BTABLE_SIZE \in Nat
         /\ End0 \in Nat /\ LASTADDR_DEFAULT + TxSize[0] \in Nat
         /\ LASTADDR_DEFAULT <= LASTADDR_DEFAULT + TxSize[0]
         /\ LASTADDR_DEFAULT + TxSize[0] <= End0
         /\ End0 < USB_BTABLE_SIZE
  BY EnumAssumption DEF Roomy, End0, Endpoints

LEMMA BoundedInit == ASSUME Roomy, Init PROVE Bounded
<1>1. Room  BY DEF Init, Room, Allocating
<1>2. TypeOK
  <2>1. {txaddr, rxaddr} \subseteq [Endpoints -> 0 .. USB_BTABLE_SIZE - 1]
    BY Constants DEF Init
  <2>2. /\ lastaddr \in LASTADDR_DEFAULT .. USB_BTABLE_SIZE - 1
        /\ tmp \in 0 .. USB_BTABLE_SIZE - 1
    BY Constants DEF Init
  <2>3. /\ {USB_Addr, DADDR, hostaddr} \subseteq Addresses \cup {0}
        /\ enabled \subseteq Endpoints /\ ep \in Endpoints
    BY DEF Init, Endpoints
  <2>4. /\ status \in {"DEFAULT", "ADDRESSED", "CONFIGURED", "CONNECTED"}
        /\ pc \in {"idle", "check", "read", "write", "tx", "rx", "connect"}
        /\ valid \in BOOLEAN
        /\ host \in {"powered", "reset", "addressed", "configured"}
        /\ transfer \in {"none", "descriptor", "address", "configuration",
                         "acknowledge"}
    BY DEF Init
  <2> QED  BY <2>1, <2>2, <2>3, <2>4 DEF TypeOK
<1> QED  BY <1>1, <1>2 DEF Bounded

LEMMA BoundedMain == ASSUME Roomy, Bounded, Main PROVE Bounded'
<1> USE Constants
<1>1. CASE usb_proc
  BY <1>1 DEF usb_proc, device, memory, pcside, Bounded, TypeOK, Room, Allocating, Endpoints
<1>2. CASE EP_Init_check
  <2> USE <1>2 DEF EP_Init_check, device, pcside, Bounded
  <2>1. CASE Fits /\ pc' = "read" /\ tmp' = lastaddr /\ UNCHANGED ep
    <3>1. TxSize[ep] \in Nat /\ RxSize[ep] \in Nat  BY DEF TypeOK
    <3>2. TypeOK'
      <4>1. lastaddr \in 0 .. USB_BTABLE_SIZE - 1  BY DEF TypeOK
      <4> QED  BY <2>1, <4>1 DEF TypeOK, memory
    <3>3. Room'  BY <2>1, <3>1 DEF Fits, TypeOK, Room, Allocating, memory
    <3> QED  BY <3>2, <3>3
  <2>2. CASE Following /\ UNCHANGED tmp
    BY <2>2 DEF Following, TypeOK, Room, Allocating, Endpoints, memory
  <2> QED  BY <2>1, <2>2
<1>3. CASE EP_Init_read \/ EP_Init_write
  <2>1. /\ pc' \in {"write", "tx"} /\ pc \in {"read", "write"}
        /\ enabled' \subseteq enabled \cup {ep}
        /\ valid' \in BOOLEAN
        /\ UNCHANGED <<ep, tmp, device, lastaddr, txaddr, rxaddr, pcside>>
    <3>1. CASE EP_Init_read
      BY <3>1 DEF EP_Init_read, memory
    <3>2. CASE EP_Init_write
      BY <3>2 DEF EP_Init_write, Bounded, TypeOK
    <3> QED  BY <1>3, <3>1, <3>2
  <2> QED  BY <2>1 DEF device, pcside, Bounded, TypeOK, Room, Allocating
<1>4. CASE EP_Init_tx
  <2>1. PICK start \in {tmp, lastaddr} :
               /\ txaddr' = [txaddr EXCEPT ![ep] = start]
               /\ tmp' = start + TxSize[ep] /\ lastaddr' = start + TxSize[ep]
    BY <1>4 DEF EP_Init_tx
  <2>2. /\ start \in Nat /\ LASTADDR_DEFAULT <= start
        /\ TxSize[ep] \in Nat /\ RxSize[ep] \in Nat
        /\ start + TxSize[ep] + RxSize[ep] < USB_BTABLE_SIZE
    BY <1>4 DEF EP_Init_tx, Bounded, TypeOK, Room, Allocating
  <2> QED
    BY <1>4, <2>1, <2>2 DEF EP_Init_tx, device, pcside, Bounded, TypeOK, Room, Allocating
<1>5. CASE EP_Init_rx
  <2>1. PICK start \in {tmp, lastaddr} :
               /\ rxaddr' = [rxaddr EXCEPT ![ep] = start]
               /\ lastaddr' = start + RxSize[ep]
    BY <1>5 DEF EP_Init_rx
  <2>2. /\ start \in Nat /\ LASTADDR_DEFAULT <= start /\ RxSize[ep] \in Nat
        /\ start + RxSize[ep] < USB_BTABLE_SIZE
    BY <1>5 DEF EP_Init_rx, Bounded, TypeOK, Room, Allocating
  <2>3. pc' \in {"check", "connect"} /\ ep' \in Endpoints
    BY <1>5 DEF EP_Init_rx, Following, Bounded, TypeOK, Endpoints
  <2> QED
    BY <1>5, <2>1, <2>2, <2>3 DEF EP_Init_rx, device, pcside, Bounded, TypeOK, Room, Allocating
<1>6. CASE connect
  BY <1>6 DEF connect, memory, pcside, Bounded, TypeOK, Room, Allocating
<1> QED  BY <1>1, <1>2, <1>3, <1>4, <1>5, <1>6 DEF Main

LEMMA BoundedReset == ASSUME Roomy, Bounded, BusReset PROVE Bounded'
<1> USE Constants DEF Bounded
<1>1. TypeOK'
  BY DEF BusReset, main, TypeOK, Endpoints, End0
<1>2. Room'
  <2>1. /\ TxSize[ep] \in Nat /\ RxSize[ep] \in Nat
        /\ End0 + TxSize[ep] + RxSize[ep] < USB_BTABLE_SIZE
    BY DEF TypeOK, Roomy
  <2>2. lastaddr' = End0 /\ UNCHANGED <<tmp, pc, ep>>
    BY DEF BusReset, main, End0
  <2> QED  BY <2>1, <2>2 DEF Room, Allocating, TypeOK
<1> QED  BY <1>1, <1>2

LEMMA BoundedRequest ==
  ASSUME Bounded,
         GetDescriptor \/ SetAddress \/ SetConfiguration
           \/ EP0_transmitted \/ EP0_received \/ UNCHANGED vars
  PROVE  Bounded'
<1> USE DEF Bounded
<1>1. Room'
  <2>1. UNCHANGED <<memory, main>>
    BY DEF GetDescriptor, SetAddress, SetConfiguration, Setup, EP0_transmitted,
           EP0_received, vars
  <2> QED  BY <2>1 DEF memory, main, Room, Allocating
<1>2. TypeOK'
  <2> USE DEF TypeOK, device, memory, main, pcside
  <2>1. CASE GetDescriptor BY <2>1 DEF GetDescriptor, Setup
  <2>2. CASE SetAddress BY <2>2 DEF SetAddress, Setup
  <2>3. CASE SetConfiguration BY <2>3 DEF SetConfiguration, Setup
  <2>4. CASE EP0_transmitted BY <2>4 DEF EP0_transmitted
  <2>5. CASE EP0_received BY <2>5 DEF EP0_received
  <2>6. CASE UNCHANGED vars BY <2>6 DEF vars
  <2> QED  BY <2>1, <2>2, <2>3, <2>4, <2>5, <2>6
<1> QED  BY <1>1, <1>2

LEMMA BoundedStep == ASSUME Roomy, Bounded, [Next]_vars PROVE Bounded'
  BY BoundedMain, BoundedReset, BoundedRequest DEF Next

\* TypeOK for all constants: lastaddr never leaves the packet memory, however
\* often the reset handler starts the allocation again while EP_Init, called
\* from usb_proc, is at work on it.
THEOREM MemoryBounded == ASSUME Roomy PROVE Spec => []TypeOK
<1>1. Init => Bounded  BY BoundedInit
<1>2. Bounded /\ [Next]_vars => Bounded'  BY BoundedStep
<1>3. Bounded => TypeOK  BY DEF Bounded
<1> QED  BY <1>1, <1>2, <1>3, PTL DEF Spec

---------------------------------------------------------------------------

LEMMA AddressingStep ==
  ASSUME Addressing, [Next]_vars
  PROVE  Addressing'
<1> USE DEF Addressing, AddressAgrees, device, memory, main, pcside
<1>1. CASE Main
  BY <1>1 DEF Main, usb_proc, EP_Init_check, EP_Init_read, EP_Init_write,
              EP_Init_tx, EP_Init_rx, connect
<1>2. CASE BusReset  BY <1>2 DEF BusReset
<1>3. CASE GetDescriptor  BY <1>3 DEF GetDescriptor, Setup
<1>4. CASE SetAddress  BY <1>4 DEF SetAddress, Setup
<1>5. CASE SetConfiguration  BY <1>5 DEF SetConfiguration, Setup
<1>6. CASE EP0_transmitted
  <2>1. /\ USB_Addr' = USB_Addr /\ DADDR' = USB_Addr
        /\ transfer \in {"descriptor", "address", "configuration"}
    BY <1>6 DEF EP0_transmitted
  <2>2. CASE transfer = "descriptor"
    <3>1. UNCHANGED <<host, hostaddr>> /\ transfer' = "acknowledge"
      BY <1>6, <2>2 DEF EP0_transmitted
    <3> QED  BY <2>1, <2>2, <3>1
  <2>3. CASE transfer = "address"
    <3>1. host' = "addressed" /\ hostaddr' = USB_Addr /\ transfer' = "none"
      BY <1>6, <2>3 DEF EP0_transmitted
    <3> QED  BY <2>1, <2>3, <3>1
  <2>4. CASE transfer = "configuration"
    <3>1. host' = "configured" /\ hostaddr' = hostaddr /\ transfer' = "none"
      BY <1>6, <2>4 DEF EP0_transmitted
    <3> QED  BY <2>1, <2>4, <3>1
  <2> QED  BY <2>1, <2>2, <2>3, <2>4
<1>7. CASE EP0_received  BY <1>7 DEF EP0_received
<1>8. CASE UNCHANGED vars  BY <1>8 DEF vars
<1> QED  BY <1>1, <1>2, <1>3, <1>4, <1>5, <1>6, <1>7, <1>8 DEF Next

\* AddressAgrees for all constants: whatever a PC asks first after a reset,
\* and though the reset handler leaves USB_Addr as it was, the device answers
\* to the address the PC uses, except from the end of a descriptor read before
\* SET_ADDRESS to the next reset.  From SET_ADDRESS on they always agree.
THEOREM AddressFollows == Spec => []AddressAgrees
<1>1. Init => Addressing  BY DEF Init, Addressing, AddressAgrees
<1>2. Addressing /\ [Next]_vars => Addressing'  BY AddressingStep
<1>3. Addressing => AddressAgrees  BY DEF Addressing
<1> QED  BY <1>1, <1>2, <1>3, PTL DEF Spec
---------------------------------------------------------------------------

LEMMA Numbers ==
  ASSUME Roomy, Bounded
  PROVE  /\ lastaddr \in Nat /\ tmp \in Nat /\ LASTADDR_DEFAULT <= lastaddr
         /\ ep \in Endpoints /\ enabled \subseteq Endpoints
         /\ \A n \in Endpoints :
              {TxSize[n], RxSize[n], txaddr[n], rxaddr[n]} \subseteq Nat
  BY Constants DEF Bounded, TypeOK

LEMMA AllocatedInit == ASSUME Init PROVE Allocated
  BY DEF Init, Allocated, Done, Underway, Control, Allocating

\* Steps outside tx and rx leave every buffer and lastaddr where they are.
LEMMA SameBuffers ==
  ASSUME UNCHANGED <<txaddr, rxaddr, lastaddr>>,
         \A n \in Done : Placed(n),
         \A n, m \in Done : n # m => Apart(n, m),
         Done' \subseteq Done
  PROVE  /\ \A n \in Done' : Placed(n)'
         /\ \A n, m \in Done' : n # m => Apart(n, m)'
  BY DEF Placed, Apart, End

LEMMA AllocatedOutside ==
  ASSUME Roomy, Bounded, Allocated, usb_proc \/ connect PROVE Allocated'
<1> USE DEF usb_proc, connect, device, memory, pcside
<1>1. Done' = Done /\ pc' \notin Allocating  BY DEF Done, Allocating
<1>2. Underway'  BY <1>1 DEF Underway, Allocating
<1>3. Control'  BY <1>1 DEF Allocated, Control, End
<1> QED  BY <1>1, <1>2, <1>3, SameBuffers DEF Allocated

LEMMA AllocatedCheck ==
  ASSUME Roomy, Bounded, Allocated, EP_Init_check PROVE Allocated'
<1> USE DEF EP_Init_check, device, memory, pcside
<1>1. 0 \in Done /\ Placed(0) /\ End(0) = End0
  BY DEF Allocated, Control, Done, Allocating
<1>2. End0 \in Nat /\ End0 <= lastaddr
  BY <1>1, Constants DEF Placed
<1>3. CASE Fits /\ tmp' = lastaddr /\ pc' = "read" /\ UNCHANGED ep
  <2>1. Done' \subseteq Done  BY <1>3 DEF Done, Allocating
  <2>2. Underway'
    BY <1>3, <2>1 DEF Underway, Allocated, Placed, End
  <2>3. Control'  BY <1>2, <1>3 DEF Allocated, Control, End
  <2> QED  BY <1>3, <2>1, <2>2, <2>3, SameBuffers DEF Allocated
<1>4. CASE ~Fits /\ Following /\ UNCHANGED tmp
  <2>1. pc' \in {"check", "connect"} /\ ep' # 0
    BY <1>4, Numbers DEF Following, Endpoints, Allocated, Control
  <2>2. Done' = Done  BY <1>4, <2>1 DEF Done, Allocating
  <2>3. Underway'  BY <2>1 DEF Underway, Allocating
  <2>4. Control'  BY <1>4, <2>1 DEF Allocated, Control, End, Allocating
  <2> QED  BY <1>4, <2>2, <2>3, <2>4, SameBuffers DEF Allocated
<1> QED  BY <1>3, <1>4

LEMMA AllocatedRegister ==
  ASSUME Roomy, Bounded, Allocated, EP_Init_read \/ EP_Init_write
  PROVE  Allocated'
<1>1. /\ pc \in {"read", "write"} /\ pc' \in {"write", "tx"}
      /\ enabled' = enabled \/ enabled' = enabled \cup {ep}
      /\ UNCHANGED <<ep, tmp, device, lastaddr, txaddr, rxaddr, pcside>>
  BY DEF EP_Init_read, EP_Init_write, memory
<1>2. Done' = Done  BY <1>1 DEF Done, Allocating
<1>3. Underway'
  BY <1>1, <1>2 DEF Allocated, Underway, Allocating, End
<1>4. Control'
  BY <1>1 DEF Allocated, Control, Allocating, End, device, pcside
<1> QED  BY <1>1, <1>2, <1>3, <1>4, SameBuffers DEF Allocated

\* What EP_Init writes next lies above every complete buffer.
LEMMA Above ==
  ASSUME Roomy, Bounded, Allocated, pc \in {"tx", "rx"},
         NEW start \in {tmp, lastaddr}
  PROVE  /\ start \in Nat /\ End0 <= start
         /\ \A n \in Done : n # ep /\ n \in Endpoints /\ End(n) <= start
<1>1. 0 \in Done /\ Placed(0) /\ End(0) = End0 /\ End0 <= tmp
  BY Numbers DEF Allocated, Control, Done, Allocating
<1>2. \A n \in Done : End(n) <= tmp /\ End(n) <= lastaddr
  BY DEF Allocated, Underway, Placed, Allocating
<1> QED  BY <1>1, <1>2, Numbers DEF Placed, Done, Allocating

LEMMA AllocatedTx ==
  ASSUME Roomy, Bounded, Allocated, EP_Init_tx PROVE Allocated'
<1> USE DEF EP_Init_tx, device, pcside
<1>1. PICK start \in {tmp, lastaddr} :
             /\ txaddr' = [txaddr EXCEPT ![ep] = start]
             /\ tmp' = start + TxSize[ep] /\ lastaddr' = start + TxSize[ep]
  OBVIOUS
<1>2. /\ start \in Nat /\ End0 <= start
      /\ \A n \in Done : n # ep /\ n \in Endpoints /\ End(n) <= start
  BY Above
<1>3. Done' = Done  BY DEF Done, Allocating
<1>4. \A n \in Done : /\ txaddr'[n] = txaddr[n] /\ End(n)' = End(n)
                      /\ End(n) \in Nat /\ End(n) <= lastaddr'
  BY <1>1, <1>2, Numbers DEF End
<1>5. \A n \in Done' : Placed(n)'
  BY <1>3, <1>4 DEF Allocated, Placed
<1>6. \A n, m \in Done' : n # m => Apart(n, m)'
  BY <1>3, <1>4 DEF Allocated, Apart
<1>7. txaddr'[ep] = start /\ LASTADDR_DEFAULT <= start
  BY <1>1, <1>2, Numbers, Constants DEF Bounded, TypeOK
<1>8. Underway'
  BY <1>1, <1>2, <1>3, <1>4, <1>7 DEF Underway, Allocating
<1>9. Control'
  BY <1>1, <1>2, Numbers, Constants DEF Allocated, Control, End, Allocating
<1> QED  BY <1>5, <1>6, <1>8, <1>9 DEF Allocated

LEMMA AllocatedRx ==
  ASSUME Roomy, Bounded, Allocated, EP_Init_rx PROVE Allocated'
<1> USE DEF EP_Init_rx, device, pcside
<1>1. PICK start \in {tmp, lastaddr} :
             /\ rxaddr' = [rxaddr EXCEPT ![ep] = start]
             /\ lastaddr' = start + RxSize[ep]
  OBVIOUS
<1>2. /\ start \in Nat /\ End0 <= start
      /\ \A n \in Done : n # ep /\ n \in Endpoints /\ End(n) <= start
  BY Above
<1>3. pc' \in {"check", "connect"} /\ ep' # 0
  BY Numbers DEF Following, Endpoints, Allocated, Control
<1>4. Done' = enabled /\ Done = enabled \ {ep}  BY <1>3 DEF Done, Allocating
<1>5. \A n \in Done : Placed(n)' /\ End(n)' = End(n)
  <2> SUFFICES ASSUME NEW n \in Done PROVE Placed(n)' /\ End(n)' = End(n)
    OBVIOUS
  <2>1. rxaddr'[n] = rxaddr[n] /\ End(n) \in Nat /\ RxSize[ep] \in Nat
    BY <1>1, <1>2, Numbers DEF End
  <2> QED  BY <1>1, <1>2, <2>1 DEF Allocated, Placed, End
<1>6. \A n, m \in Done : n # m => Apart(n, m)'
  BY <1>5 DEF Allocated, Apart
<1>7. \A e \in enabled : e = ep =>
        Placed(e)' /\ \A n \in Done : Apart(n, e)' /\ Apart(e, n)'
  <2> SUFFICES ASSUME NEW e \in enabled, e = ep
               PROVE  /\ Placed(e)'
                      /\ \A n \in Done : Apart(n, e)' /\ Apart(e, n)'
    OBVIOUS
  <2>1. /\ start = lastaddr /\ LASTADDR_DEFAULT <= txaddr[e]
        /\ txaddr[e] + TxSize[e] = start
        /\ \A n \in Done : End(n) <= txaddr[e]
    BY <1>1 DEF Allocated, Underway
  <2>2. rxaddr'[e] = start /\ End(e)' = lastaddr'
    BY <1>1, <1>2, Numbers DEF End, Bounded, TypeOK
  <2>3. Placed(e)'
    BY <1>1, <1>2, <2>1, <2>2, Numbers DEF Placed
  <2>4. \A n \in Done : Apart(n, e)' /\ Apart(e, n)'
    BY <1>5, <2>1 DEF Apart
  <2> QED  BY <2>3, <2>4
<1>8. \A n \in Done' : Placed(n)'  BY <1>4, <1>5, <1>7
<1>9. \A n, m \in Done' : n # m => Apart(n, m)'
  BY <1>4, <1>6, <1>7
<1>10. Underway'  BY <1>3 DEF Underway, Allocating
<1>11. Control'
  BY <1>1, <1>3, Numbers DEF Allocated, Control, End, Allocating
<1> QED  BY <1>8, <1>9, <1>10, <1>11 DEF Allocated

LEMMA AllocatedReset ==
  ASSUME Roomy, Bounded, Allocated, BusReset PROVE Allocated'
<1> USE DEF BusReset, main
<1>1. Done' = {0} /\ UNCHANGED <<pc, ep, tmp>>
  BY DEF Allocated, Control, Done, Allocating
<1>2. /\ txaddr'[0] = LASTADDR_DEFAULT
      /\ rxaddr'[0] = LASTADDR_DEFAULT + TxSize[0]
      /\ End(0)' = End0 /\ lastaddr' = End0
  BY DEF Bounded, TypeOK, Endpoints, End, End0
<1>3. Placed(0)'  BY <1>2, Constants DEF Placed
<1>4. Underway'  BY <1>1, <1>2 DEF Allocated, Control, Underway, Allocating
<1>5. Control'  BY <1>1, <1>2 DEF Allocated, Control, Allocating
<1> QED  BY <1>1, <1>3, <1>4, <1>5 DEF Allocated

LEMMA AllocatedRequest ==
  ASSUME Allocated,
         GetDescriptor \/ SetAddress \/ SetConfiguration
           \/ EP0_transmitted \/ EP0_received \/ UNCHANGED vars
  PROVE  Allocated'
<1>1. UNCHANGED <<memory, main>>
  BY DEF GetDescriptor, SetAddress, SetConfiguration, Setup, EP0_transmitted,
         EP0_received, vars
<1>2. Done' = Done /\ Underway'
  BY <1>1 DEF memory, main, Done, Allocated, Underway, Allocating, End
<1>3. Control'
  <2> USE <1>1 DEF Allocated, Control, Allocating, End, device, memory, main, pcside
  <2>1. CASE GetDescriptor  BY <2>1 DEF GetDescriptor, Setup
  <2>2. CASE SetAddress  BY <2>2 DEF SetAddress, Setup
  <2>3. CASE SetConfiguration  BY <2>3 DEF SetConfiguration, Setup
  <2>4. CASE EP0_transmitted  BY <2>4 DEF EP0_transmitted
  <2>5. CASE EP0_received  BY <2>5 DEF EP0_received
  <2>6. CASE UNCHANGED vars  BY <2>6 DEF vars
  <2> QED  BY <2>1, <2>2, <2>3, <2>4, <2>5, <2>6
<1> QED  BY <1>1, <1>2, <1>3, SameBuffers DEF Allocated, memory

LEMMA AllocatedStep ==
  ASSUME Roomy, Bounded, Allocated, [Next]_vars PROVE Allocated'
  BY AllocatedOutside, AllocatedCheck, AllocatedRegister, AllocatedTx, AllocatedRx,
     AllocatedReset, AllocatedRequest DEF Next, Main

LEMMA AllocatedDisjoint ==
  ASSUME Roomy, Bounded, Allocated PROVE BuffersDisjoint
<1> SUFFICES ASSUME Connected PROVE BuffersDisjoint  BY DEF BuffersDisjoint
<1>1. Done = enabled  BY DEF Connected, Allocated, Control, Done, Allocating
<1>2. \A n \in enabled :
        /\ {TxSize[n], RxSize[n], txaddr[n], rxaddr[n]} \subseteq Nat
        /\ Placed(n)
  BY <1>1, Numbers DEF Allocated
<1>3. lastaddr \in Nat /\ lastaddr < USB_BTABLE_SIZE
  BY Constants DEF Bounded, TypeOK
<1>4. \A n \in enabled :
        /\ TxBytes(n) \cap RxBytes(n) = {}
        /\ Bytes(n) \subseteq txaddr[n] .. End(n) - 1
        /\ Bytes(n) \subseteq LASTADDR_DEFAULT .. USB_BTABLE_SIZE - 1
  BY <1>2, <1>3, Constants DEF Placed, End, Bytes, TxBytes, RxBytes, Span
<1>5. \A n, m \in enabled : n # m => Bytes(n) \cap Bytes(m) = {}
  <2> SUFFICES ASSUME NEW n \in enabled, NEW m \in enabled, n # m,
                      NEW b \in Bytes(n) \cap Bytes(m)
               PROVE  FALSE
    OBVIOUS
  <2>1. b \in txaddr[n] .. End(n) - 1 /\ b \in txaddr[m] .. End(m) - 1
    BY <1>4
  <2>2. Apart(n, m)  BY <1>1 DEF Allocated
  <2> QED  BY <1>2, <2>1, <2>2 DEF Apart, End
<1> QED  BY <1>4, <1>5 DEF BuffersDisjoint

\* BuffersDisjoint for all constants: no reset, at whatever step of EP_Init
\* and however often, and no repeated configuration makes the buffers of a
\* connected device overlap each other or the buffer table.
THEOREM BuffersStayDisjoint == ASSUME Roomy PROVE Spec => []BuffersDisjoint
<1>1. Init => Bounded /\ Allocated  BY BoundedInit, AllocatedInit
<1>2. Bounded /\ Allocated /\ [Next]_vars => (Bounded /\ Allocated)'
  BY BoundedStep, AllocatedStep
<1>3. Bounded /\ Allocated => BuffersDisjoint  BY AllocatedDisjoint
<1> QED  BY <1>1, <1>2, <1>3, PTL DEF Spec

---------------------------------------------------------------------------
(* Every configuration allocates endpoints 1 to 3 again, above what is     *)
(* allocated already.  A reset starts at End0, but EP_Init may put back    *)
(* what it has loaded before: the worst case is that nothing is ever given *)
(* back, and that is what the configurations so far may have allocated.    *)

Paid == End0 + configs * Round

\* What EP_Init has still to allocate.
From(n) == IF n = 1 THEN Round ELSE IF n = 2 THEN Size(2) + Size(3) ELSE Size(3)
Left ==
  CASE pc = "idle" -> IF status = "CONFIGURED" THEN Round ELSE 0
    [] pc \in {"check", "read", "write", "tx"} -> From(ep)
    [] pc = "rx" -> From(ep) - TxSize[ep]
    [] pc = "connect" -> 0

\* A configuration is under way or done, and no reset has come since.
Asked == transfer = "configuration" \/ host = "configured"

Counted ==
  /\ configs \in Nat
  /\ transfer = "address" => host = "reset"
  /\ transfer = "configuration" => host \in {"addressed", "configured"}
  /\ host \in {"addressed", "configured"} => DADDR = USB_Addr
  /\ status = "CONFIGURED" => Asked

Affordable ==
  /\ lastaddr + Left <= Paid
  /\ pc \in Allocating => tmp + Left <= Paid

\* How far EP_Init has come for the configuration the PC has asked for.
Prepared ==
  Asked /\ Sufficient =>
    /\ pc = "idle" => status = "CONFIGURED" \/ enabled = Endpoints
    /\ pc = "write" /\ valid => ep \in enabled
    /\ pc \in {"check", "read", "write"} =>
         \A n \in Endpoints : n < ep => n \in enabled
    /\ pc \in {"tx", "rx"} => \A n \in Endpoints : n <= ep => n \in enabled
    /\ pc = "connect" => enabled = Endpoints

Supplied == Counted /\ Affordable /\ Prepared
---------------------------------------------------------------------------

LEMMA Sizes ==
  /\ \A n \in Endpoints : TxSize[n] \in Nat /\ RxSize[n] \in Nat /\ Size(n) \in Nat
  /\ Round \in Nat
  BY EnumAssumption DEF Endpoints, Size, Round

LEMMA Payment ==
  ASSUME Roomy, NEW c \in Nat
  PROVE  /\ End0 + c * Round \in Nat
         /\ End0 + (c + 1) * Round = End0 + c * Round + Round
<1>1. \A m \in Nat, n \in Nat : m * n \in Nat /\ (m + 1) * n = m * n + n
  OBVIOUS
<1> QED  BY <1>1, Constants, Sizes

LEMMA SuppliedInit == ASSUME Roomy, Init PROVE Supplied
<1>1. Counted  BY DEF Init, Counted
<1>2. Prepared  BY DEF Init, Prepared, Asked
<1>3. Affordable
  <2>1. lastaddr <= End0  BY Constants DEF Init, End0
  <2>2. Left = 0 /\ pc \notin Allocating  BY DEF Init, Left, Allocating
  <2>3. configs = 0 /\ 0 * Round = 0  BY Sizes DEF Init
  <2> QED  BY <2>1, <2>2, <2>3, Constants DEF Init, Affordable, Paid
<1> QED  BY <1>1, <1>2, <1>3 DEF Supplied

LEMMA CountedStep ==
  ASSUME Allocated, Counted, [Next]_vars PROVE Counted'
<1> USE DEF Counted, Asked, device, memory, main, pcside
<1>1. CASE Main
  <2>1. UNCHANGED <<pcside, DADDR, USB_Addr>>
    BY <1>1 DEF Main, usb_proc, EP_Init_check, EP_Init_read, EP_Init_write,
                EP_Init_tx, EP_Init_rx, connect
  <2>2. status' = "CONFIGURED" => status = "CONFIGURED"
    BY <1>1 DEF Main, usb_proc, EP_Init_check, EP_Init_read, EP_Init_write,
                EP_Init_tx, EP_Init_rx, connect
  <2> QED  BY <2>1, <2>2
<1>2. CASE BusReset  BY <1>2 DEF BusReset
<1>3. CASE GetDescriptor  BY <1>3 DEF GetDescriptor, Setup
<1>4. CASE SetAddress  BY <1>4 DEF SetAddress, Setup
<1>5. CASE SetConfiguration  BY <1>5 DEF SetConfiguration, Setup
<1>6. CASE EP0_transmitted
  BY <1>6 DEF EP0_transmitted, Allocated, Control
<1>7. CASE EP0_received  BY <1>7 DEF EP0_received
<1>8. CASE UNCHANGED vars  BY <1>8 DEF vars
<1> QED  BY <1>1, <1>2, <1>3, <1>4, <1>5, <1>6, <1>7, <1>8 DEF Next

\* What is left is the size of the endpoint at hand and what follows it.
LEMMA Onwards ==
  ASSUME NEW n \in Endpoints, n # 0
  PROVE  /\ From(n) \in Nat
         /\ n = 1 => From(n) = Round
         /\ n < 3 => From(n) = Size(n) + From(n + 1)
         /\ n = 3 => From(n) = Size(n)
         /\ From(n) - TxSize[n] \in Nat
         /\ From(n) - TxSize[n] - RxSize[n] \in Nat
<1>1. n \in {1, 2, 3}  BY DEF Endpoints
<1>2. \A m \in {1, 2, 3} :
        TxSize[m] \in Nat /\ RxSize[m] \in Nat /\ Size(m) = TxSize[m] + RxSize[m]
  BY Sizes DEF Endpoints, Size
<1> QED  BY <1>1, <1>2 DEF From, Round

LEMMA LeftValue ==
  ASSUME Roomy, Bounded, Allocated
  PROVE  /\ Left \in Nat
         /\ pc # "idle" => ep \in Endpoints /\ ep # 0
<1>1. pc # "idle" => ep \in Endpoints /\ ep # 0
  BY Numbers DEF Allocated, Control
<1>2. pc \in {"idle", "check", "read", "write", "tx", "rx", "connect"}
  BY DEF Bounded, TypeOK
<1>3. CASE pc = "idle"  BY <1>3, Sizes DEF Left
<1>4. CASE pc \in {"check", "read", "write", "tx"}  BY <1>4, <1>1, Onwards DEF Left
<1>5. CASE pc = "rx"
  <2>1. Left = From(ep) - TxSize[ep]  BY <1>5 DEF Left
  <2>2. ep \in Endpoints /\ ep # 0  BY <1>1, <1>5
  <2> QED  BY <1>1, <2>1, <2>2, Onwards
<1>6. CASE pc = "connect"  BY <1>1, <1>6 DEF Left
<1> QED  BY <1>1, <1>2, <1>3, <1>4, <1>5, <1>6

\* Whatever EP_Init is about to allocate then fits: it does not refuse.
LEMMA AlwaysFits ==
  ASSUME Sufficient, Roomy, Bounded, Allocated, Supplied, pc = "check"
  PROVE  Fits
<1>1. Left = From(ep) /\ ep \in Endpoints /\ ep # 0
  BY LeftValue DEF Left
<1>2. Size(ep) <= From(ep)
  <2>1. ep < 3 \/ ep = 3  BY <1>1 DEF Endpoints
  <2>2. CASE ep = 3  BY <1>1, <2>2, Onwards, Sizes
  <2>3. CASE ep < 3
    <3>1. ep + 1 \in Endpoints /\ ep + 1 # 0  BY <1>1, <2>3 DEF Endpoints
    <3> QED  BY <1>1, <2>3, <3>1, Onwards, Sizes
  <2> QED  BY <2>1, <2>2, <2>3
<1>3. lastaddr + From(ep) <= Paid
  BY <1>1 DEF Supplied, Affordable
<1>4. /\ lastaddr \in Nat /\ TxSize[ep] \in Nat /\ RxSize[ep] \in Nat
      /\ From(ep) \in Nat /\ Size(ep) = TxSize[ep] + RxSize[ep]
  BY <1>1, Numbers, Onwards, Sizes DEF Size
<1>5. Paid \in Nat /\ Paid < USB_BTABLE_SIZE /\ USB_BTABLE_SIZE \in Nat
  BY Payment, Constants DEF Supplied, Counted, Paid, Sufficient
<1> QED  BY <1>2, <1>3, <1>4, <1>5 DEF Fits

LEMMA PreparedStep ==
  ASSUME Roomy, Bounded, Allocated, Supplied, [Next]_vars
  PROVE  Prepared'
<1> USE DEF Supplied, Prepared, Asked, Sufficient, device, memory, main, pcside
<1>0. ep \in Endpoints /\ enabled \subseteq Endpoints  BY Numbers
<1>1. CASE usb_proc
  <2>1. Asked => 0 \in enabled  BY DEF Counted, Allocated, Control
  <2>2. \A n \in Endpoints : n < 1 => n = 0  BY DEF Endpoints
  <2> QED  BY <1>1, <2>1, <2>2 DEF usb_proc
<1>2. CASE EP_Init_check
  <2>1. Sufficient => pc' = "read" /\ UNCHANGED <<ep, enabled, configs>>
    BY <1>2, AlwaysFits DEF EP_Init_check
  <2> QED  BY <1>2, <2>1 DEF EP_Init_check
<1>3. CASE EP_Init_read  BY <1>3 DEF EP_Init_read
<1>4. CASE EP_Init_write
  <2>1. \A n \in Endpoints : n <= ep => n < ep \/ n = ep
    BY <1>0 DEF Endpoints
  <2> QED  BY <1>4, <2>1 DEF EP_Init_write
<1>5. CASE EP_Init_tx  BY <1>5 DEF EP_Init_tx
<1>6. CASE EP_Init_rx
  <2>1. CASE ep < 3
    <3>1. \A n \in Endpoints : n < ep + 1 => n <= ep  BY <1>0 DEF Endpoints
    <3> QED  BY <1>6, <2>1, <3>1 DEF EP_Init_rx, Following
  <2>2. CASE ~(ep < 3)
    <3>1. \A n \in Endpoints : n <= ep  BY <1>0, <2>2 DEF Endpoints
    <3> QED  BY <1>0, <1>6, <2>2, <3>1 DEF EP_Init_rx, Following
  <2> QED  BY <2>1, <2>2
<1>7. CASE connect  BY <1>7 DEF connect
<1>8. CASE BusReset  BY <1>8 DEF BusReset
<1>9. CASE GetDescriptor  BY <1>9 DEF GetDescriptor, Setup
<1>10. CASE SetAddress  BY <1>10 DEF SetAddress, Setup
<1>11. CASE SetConfiguration  BY <1>11 DEF SetConfiguration, Setup
<1>12. CASE EP0_transmitted
  <2>1. Asked => DADDR = USB_Addr  BY DEF Counted
  <2> QED  BY <1>12, <2>1 DEF EP0_transmitted
<1>13. CASE EP0_received  BY <1>13 DEF EP0_received
<1>14. CASE UNCHANGED vars  BY <1>14 DEF vars
<1> QED  BY <1>1, <1>2, <1>3, <1>4, <1>5, <1>6, <1>7, <1>8, <1>9, <1>10,
            <1>11, <1>12, <1>13, <1>14 DEF Next, Main

LEMMA AffordableMain ==
  ASSUME Roomy, Bounded, Allocated, Supplied, Main
  PROVE  Affordable'
<1>1. Paid \in Nat  BY Payment DEF Supplied, Counted, Paid
<1>2. /\ lastaddr \in Nat /\ tmp \in Nat /\ Left \in Nat
      /\ pc # "idle" => ep \in Endpoints /\ ep # 0
  BY Numbers, LeftValue
<1>3. /\ lastaddr + Left <= Paid
      /\ pc \in Allocating => tmp + Left <= Paid
  BY DEF Supplied, Affordable
<1>4. configs' = configs
  BY DEF Main, usb_proc, EP_Init_check, EP_Init_read, EP_Init_write, EP_Init_tx,
         EP_Init_rx, connect, pcside
<1> SUFFICES /\ lastaddr' + Left' <= Paid
             /\ pc' \in Allocating => tmp' + Left' <= Paid
  BY <1>4 DEF Affordable, Paid, End0
<1>5. CASE usb_proc
  <2>1. Left' = Left /\ lastaddr' = lastaddr /\ pc' = "check"
    BY <1>5 DEF usb_proc, Left, From, memory
  <2> QED  BY <1>3, <2>1 DEF Allocating
<1>6. CASE EP_Init_check
  <2>1. pc = "check" /\ lastaddr' = lastaddr /\ Left = From(ep)
    BY <1>6 DEF EP_Init_check, memory, Left
  <2>2. CASE pc' = "read" /\ tmp' = lastaddr /\ UNCHANGED ep
    <3>1. Left' = Left  BY <2>1, <2>2 DEF Left
    <3> QED  BY <1>3, <2>1, <2>2, <3>1
  <2>3. CASE Following
    <3>1. pc' \notin Allocating /\ Left' \in Nat /\ Left' <= Left
      <4>1. CASE ep < 3
        <5>1. pc' = "check" /\ Left' = From(ep + 1)
          BY <2>3, <4>1 DEF Following, Left, From
        <5>2. ep + 1 \in Endpoints /\ ep + 1 # 0
          BY <1>2, <2>1, <4>1 DEF Endpoints
        <5>3. From(ep) = Size(ep) + From(ep + 1) /\ From(ep + 1) \in Nat
          BY <1>2, <2>1, <4>1, <5>2, Onwards
        <5> QED  BY <1>2, <2>1, <5>1, <5>3, Sizes DEF Allocating
      <4>2. CASE ~(ep < 3)
        <5>1. pc' = "connect" /\ Left' = 0
          BY <2>3, <4>2 DEF Following, Left
        <5> QED  BY <1>2, <5>1 DEF Allocating
      <4> QED  BY <4>1, <4>2
    <3>2. \A rest \in Nat : rest <= Left => lastaddr + rest <= Paid
      BY <1>1, <1>2, <1>3
    <3>3. lastaddr + Left' <= Paid  BY <3>1, <3>2
    <3> QED  BY <2>1, <3>1, <3>3
  <2> QED  BY <1>6, <2>2, <2>3 DEF EP_Init_check
<1>7. CASE EP_Init_read \/ EP_Init_write
  <2>1. /\ pc \in {"read", "write"} /\ pc' \in {"write", "tx"}
        /\ UNCHANGED <<lastaddr, tmp, ep>>
    BY <1>7 DEF EP_Init_read, EP_Init_write, memory
  <2>2. Left' = Left  BY <2>1 DEF Left
  <2> QED  BY <1>3, <2>1, <2>2 DEF Allocating
<1>8. CASE EP_Init_tx
  <2>1. PICK start \in {tmp, lastaddr} :
               tmp' = start + TxSize[ep] /\ lastaddr' = start + TxSize[ep]
    BY <1>8 DEF EP_Init_tx
  <2>2. pc = "tx" /\ pc' = "rx" /\ UNCHANGED ep  BY <1>8 DEF EP_Init_tx
  <2>3. Left = From(ep) /\ Left' = From(ep) - TxSize[ep]
    BY <2>2 DEF Left
  <2>4. start \in Nat /\ start + Left <= Paid
    BY <1>2, <1>3, <2>1, <2>2 DEF Allocating
  <2>5. TxSize[ep] \in Nat  BY <1>2, <2>2, Numbers
  <2>6. start + TxSize[ep] + (Left - TxSize[ep]) <= Paid
    BY <1>1, <1>2, <2>4, <2>5
  <2> QED  BY <2>1, <2>3, <2>6
<1>9. CASE EP_Init_rx
  <2>1. PICK start \in {tmp, lastaddr} : lastaddr' = start + RxSize[ep]
    BY <1>9 DEF EP_Init_rx
  <2>2. pc = "rx" /\ Following  BY <1>9 DEF EP_Init_rx
  <2>3. Left = From(ep) - TxSize[ep]  BY <2>2 DEF Left
  <2>4. start \in Nat /\ start + Left <= Paid
    BY <1>2, <1>3, <2>1, <2>2 DEF Allocating
  <2>5. /\ TxSize[ep] \in Nat /\ RxSize[ep] \in Nat /\ From(ep) \in Nat
        /\ Size(ep) = TxSize[ep] + RxSize[ep]
    BY <1>2, <2>2, Numbers, Onwards DEF Size
  <2>6. pc' \notin Allocating /\ Left' = Left - RxSize[ep]
    <3>1. CASE ep < 3
      <4>1. pc' = "check" /\ ep' = ep + 1  BY <2>2, <3>1 DEF Following
      <4>2. Left' = From(ep + 1)  BY <4>1 DEF Left
      <4>3. ep + 1 \in Endpoints /\ ep + 1 # 0
        BY <1>2, <2>2, <3>1 DEF Endpoints
      <4>4. From(ep) = Size(ep) + From(ep + 1) /\ From(ep + 1) \in Nat
        BY <1>2, <2>2, <3>1, <4>3, Onwards
      <4> QED  BY <2>3, <2>5, <4>1, <4>2, <4>4 DEF Allocating
    <3>2. CASE ep = 3
      <4>1. pc' = "connect"  BY <2>2, <3>2 DEF Following
      <4>2. Left' = 0  BY <4>1 DEF Left
      <4>3. From(ep) = Size(ep)  BY <1>2, <2>2, <3>2, Onwards
      <4> QED  BY <2>3, <2>5, <4>1, <4>2, <4>3 DEF Allocating
    <3> QED  BY <1>2, <2>2, <3>1, <3>2 DEF Endpoints
  <2>7. start + RxSize[ep] + (Left - RxSize[ep]) <= Paid
    BY <1>1, <1>2, <2>4, <2>5
  <2> QED  BY <2>1, <2>6, <2>7
<1>10. CASE connect
  <2>1. Left = 0 /\ Left' = 0 /\ lastaddr' = lastaddr /\ pc' = "idle"
    BY <1>10 DEF connect, Left, memory
  <2> QED  BY <1>3, <2>1 DEF Allocating
<1> QED  BY <1>5, <1>6, <1>7, <1>8, <1>9, <1>10 DEF Main

\* A reset gives back what lies above End0, but the values EP_Init works on
\* may return, so nothing counts as given back.
LEMMA AffordableReset ==
  ASSUME Roomy, Bounded, Allocated, Supplied, BusReset
  PROVE  Affordable'
<1>1. Paid \in Nat /\ End0 <= Paid /\ Paid' = Paid /\ End0' = End0
  <2>1. configs \in Nat /\ configs' = configs
    BY DEF BusReset, Supplied, Counted
  <2>2. configs * Round \in Nat
    <3>1. \A m \in Nat, n \in Nat : m * n \in Nat  OBVIOUS
    <3> QED  BY <2>1, <3>1, Sizes
  <2> QED  BY <2>1, <2>2, Constants DEF Paid, End0
<1>2. lastaddr \in Nat /\ tmp \in Nat /\ Left \in Nat /\ End0 \in Nat
  BY Numbers, LeftValue, Constants
<1>3. lastaddr' = End0 /\ UNCHANGED <<pc, ep, tmp>> /\ status' = "DEFAULT"
  BY DEF BusReset, main, End0
<1>4. CASE pc = "idle"
  <2>1. Left' = 0  BY <1>3, <1>4 DEF Left
  <2> QED  BY <1>1, <1>2, <1>3, <1>4, <2>1 DEF Affordable, Allocating
<1>5. CASE pc # "idle"
  <2>1. Left' = Left
    <3>1. pc' = pc /\ ep' = ep  BY <1>3
    <3>2. From(ep)' = From(ep)  BY <3>1 DEF From
    <3>3. pc \in {"check", "read", "write", "tx", "rx", "connect"}
      BY <1>5 DEF Bounded, TypeOK
    <3> QED  BY <3>1, <3>2, <3>3 DEF Left
  <2>2. 0 \in Done /\ Placed(0) /\ End(0) = End0
    BY <1>5 DEF Allocated, Control, Done, Allocating
  <2>3. End0 <= lastaddr  BY <2>2 DEF Placed
  <2>4. lastaddr + Left <= Paid /\ (pc \in Allocating => tmp + Left <= Paid)
    BY DEF Supplied, Affordable
  <2>5. End0 + Left <= Paid  BY <1>1, <1>2, <2>3, <2>4
  <2> QED  BY <1>1, <1>3, <2>1, <2>4, <2>5 DEF Affordable, Allocating
<1> QED  BY <1>4, <1>5

LEMMA AffordableRequest ==
  ASSUME Roomy, Bounded, Allocated, Supplied,
         GetDescriptor \/ SetAddress \/ SetConfiguration
           \/ EP0_transmitted \/ EP0_received \/ UNCHANGED vars
  PROVE  Affordable'
<1>1. UNCHANGED <<lastaddr, tmp, pc, ep>>
  BY DEF GetDescriptor, SetAddress, SetConfiguration, Setup, EP0_transmitted,
         EP0_received, vars, memory, main
<1>2. /\ lastaddr \in Nat /\ tmp \in Nat /\ Left \in Nat /\ Paid \in Nat
      /\ Round \in Nat /\ configs \in Nat
  BY Numbers, LeftValue, Sizes, Payment DEF Paid, Supplied, Counted
<1>3. End0' = End0  BY DEF End0
<1>4. CASE SetConfiguration
  <2>1. configs' = configs + 1 /\ pc = "idle"
        /\ status' = "CONFIGURED" /\ status # "CONFIGURED"
    BY <1>4 DEF SetConfiguration, Setup
  <2>2. Paid' = Paid + Round  BY <1>2, <1>3, <2>1, Payment DEF Paid
  <2>3. Left = 0 /\ Left' = Round  BY <1>1, <2>1 DEF Left
  <2>4. lastaddr <= Paid  BY <1>2, <2>3 DEF Supplied, Affordable
  <2>5. lastaddr + Round <= Paid + Round  BY <1>2, <2>4
  <2> QED  BY <1>1, <2>1, <2>2, <2>3, <2>5 DEF Affordable, Allocating
<1>5. CASE ~SetConfiguration
  <2>1. Left' = Left
    <3>1. status' = "CONFIGURED" <=> status = "CONFIGURED"
      <4>1. CASE EP0_transmitted
        BY <4>1 DEF EP0_transmitted, Supplied, Counted, Asked
      <4> QED  BY <1>5, <4>1 DEF GetDescriptor, SetAddress, Setup, EP0_received,
                 vars, device
    <3> QED  BY <1>1, <3>1 DEF Left
  <2>2. configs' = configs
    BY <1>5 DEF GetDescriptor, SetAddress, Setup, EP0_transmitted, EP0_received,
       vars, pcside
  <2> QED  BY <1>1, <1>3, <2>1, <2>2 DEF Supplied, Affordable, Paid
<1> QED  BY <1>4, <1>5

LEMMA SuppliedStep ==
  ASSUME Roomy, Bounded, Allocated, Supplied, [Next]_vars
  PROVE  Supplied'
<1>1. Counted'  BY CountedStep DEF Supplied
<1>2. Prepared'  BY PreparedStep
<1>3. Affordable'
  BY AffordableMain, AffordableReset, AffordableRequest DEF Next
<1> QED  BY <1>1, <1>2, <1>3 DEF Supplied

LEMMA SuppliedReady ==
  ASSUME Allocated, Supplied PROVE ReadyForUse
<1>1. Connected => Asked /\ pc = "idle" /\ status # "CONFIGURED"
  BY DEF Connected, Asked, Allocated, Control
<1> QED  BY <1>1 DEF ReadyForUse, Supplied, Prepared

\* ReadyForUse for all constants: a connected device has all its endpoints,
\* whatever resets have interrupted EP_Init in usb_proc, which never looks at
\* what EP_Init returns, as long as the packet memory is sufficient for all
\* configurations so far together.
THEOREM AllEndpointsReady == ASSUME Roomy PROVE Spec => []ReadyForUse
<1>1. Init => Bounded /\ Allocated /\ Supplied
  BY BoundedInit, AllocatedInit, SuppliedInit
<1>2. Bounded /\ Allocated /\ Supplied /\ [Next]_vars
        => (Bounded /\ Allocated /\ Supplied)'
  BY BoundedStep, AllocatedStep, SuppliedStep
<1>3. Bounded /\ Allocated /\ Supplied => ReadyForUse  BY SuppliedReady
<1> QED  BY <1>1, <1>2, <1>3, PTL DEF Spec
===========================================================================
