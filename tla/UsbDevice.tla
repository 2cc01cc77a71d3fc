---------------------------- MODULE UsbDevice ----------------------------
(***************************************************************************)
(* The USB serial device of the debugger firmware, debug/bluepill/src/usb: *)
(* the main loop of main.c (usb_proc, usb_recv, the usb_send calls that    *)
(* answer a request), the interrupt handlers that preempt it between any   *)
(* two accesses to shared state, the bulk endpoints EP2 (OUT) and EP3 (IN) *)
(* with their register and packet buffer, and the PC that sends requests,  *)
(* polls for responses and may reset the bus.                              *)
(*                                                                         *)
(* The transmit buffer is the bounded FIFO of ByteQueue.tla, which         *)
(* RingBuffer.tla implements.  A request packet is abstracted to how much  *)
(* of its answer each of its usb_send calls completes; byte j of the       *)
(* answer to packet k is <<k, j>>.                                         *)
(*                                                                         *)
(* A raised CTR flag preempts the main loop before its next step, except   *)
(* that a step which is a single store may still land between the flag and *)
(* the handler.                                                            *)
(***************************************************************************)
EXTENDS Integers, Sequences, SequencesExt, FiniteSets, EndpointRegister

CONSTANTS
  Block,       \* bytes of a full packet (USB_TXBUFSZ, BLOCKSIZE)
  Capacity,    \* bytes the transmit buffer holds (RBSIZE - 1)
  Plans,       \* what a PC may do, each a record (below)
  MaxPackets   \* bound: request packets sent in all

Ascending(s) == \A i, j \in 1 .. Len(s) : i < j => s[i] < s[j]

\* The buffer holds a packet (511 and 64 bytes in the firmware).  A PC sends
\* packets that are each the sequence of the lengths its answer has after the
\* usb_send calls that make it, with at most window of them not yet answered
\* in full; it resets the bus, and sends SEND_BREAK or suspends the device, a
\* bounded number of times.
ASSUME UsbAssumption ==
  /\ {Block, Capacity, MaxPackets} \subseteq Nat \ {0}
  /\ Block <= Capacity
  /\ \A p \in Plans :
       /\ p.requests \subseteq Seq(Nat \ {0})
       /\ \A r \in p.requests : Ascending(r)
       /\ p.window \in Nat \ {0}
       /\ {p.maxresets, p.maxoffs} \subseteq Nat

VARIABLES
  \* firmware, shared between the main loop and the interrupt handlers
  status, usbON, tx_succesfull, rxNE, rx_cnt,
  \* firmware, main loop only
  pc, ret,          \* next step; where send_next returns to
  queue, lastdsz,   \* ringbuffer.c; send_next's static
  usbbuff, eptmp,   \* packet to transmit; the register value EP_Write read
  packet, todo, sent, size,  \* request being answered, usb_send calls left,
                             \* bytes answered so far, bytes left to usb_send
  \* endpoints 2 and 3: STAT field, CTR flag, packet buffer
  rxStat, rxCtr, rxBuf, txStat, txCtr, txBuf,
  \* the PC
  plan,      \* what it does in this behaviour
  host,      \* "reset", "addressed", "configured", "open"
  session,   \* packets sent before the last bus reset
  requests,  \* every request packet sent
  received,  \* bytes received since the last bus reset
  resets, offs

shared == <<status, usbON, tx_succesfull, rxNE, rx_cnt>>
sending == <<ret, queue, lastdsz, usbbuff, eptmp>>
serving == <<packet, todo, sent, size>>
ep2 == <<rxStat, rxCtr, rxBuf>>
ep3 == <<txStat, txCtr, txBuf>>
pcside == <<plan, host, session, requests, received, resets, offs>>
vars == <<shared, pc, sending, serving, ep2, ep3, pcside>>

\* The operators of the transmit buffer (its actions are not used).
Fifo == INSTANCE ByteQueue WITH
  Byte <- (1 .. MaxPackets) \X Nat, Inputs <- {}, out <- usbbuff, ret <- size

---------------------------------------------------------------------------
(* Packets, answers.                                                       *)

\* The length of the answer to request r, and after its first i calls.
Total(r) == IF r = <<>> THEN 0 ELSE r[Len(r)]
End(r, i) == IF i = 0 THEN 0 ELSE r[i]

\* The byte that follows b in the answers to all packets.
Sequel(b) ==
  IF b[2] < Total(requests[b[1]]) THEN <<b[1], b[2] + 1>> ELSE <<b[1] + 1, 1>>

Answered(k) == <<k, Total(requests[k])>> \in ToSet(received)
Outstanding == {k \in session + 1 .. Len(requests) : ~Answered(k)}

---------------------------------------------------------------------------

Init ==
  /\ status = "DEFAULT" /\ usbON = FALSE
  /\ tx_succesfull = TRUE /\ rxNE = FALSE /\ rx_cnt = 0
  /\ pc = "proc" /\ ret = "recv"
  /\ queue = <<>> /\ lastdsz = 0 /\ usbbuff = <<>> /\ eptmp = DISABLED
  /\ packet = 0 /\ todo = <<>> /\ sent = 0 /\ size = 0
  /\ rxStat = DISABLED /\ rxCtr = FALSE /\ rxBuf = 0
  /\ txStat = DISABLED /\ txCtr = FALSE /\ txBuf = <<>>
  /\ plan \in Plans
  /\ host = "reset" /\ session = 0
  /\ requests = <<>> /\ received = <<>>
  /\ resets = 0 /\ offs = 0

---------------------------------------------------------------------------
(* Main loop.  send_next is entered from usb_proc and from usb_send when   *)
(* tx_succesfull is set; it goes on to EP_Write or returns at once.        *)

send_next(caller) ==
  /\ ret' = caller
  /\ \/ /\ queue # <<>>
        /\ usbbuff' = Fifo!Portion(queue)
        /\ queue' = Fifo!Remainder(queue)
        /\ tx_succesfull' = FALSE
        /\ lastdsz' = Len(usbbuff')
        /\ pc' = "copy"
     \/ /\ queue = <<>>
        /\ usbbuff' = <<>>
        /\ lastdsz' = 0
        /\ pc' = IF lastdsz = Block THEN "copy" ELSE caller
        /\ UNCHANGED <<queue, tx_succesfull>>
  /\ UNCHANGED eptmp

\* Mutant: usb_proc leaves all sending to usb_send.
usb_proc_NoFlush ==
  /\ pc = "proc"
  /\ \/ /\ status = "CONFIGURED"
        /\ pc' = "init2"
        /\ UNCHANGED shared
     \/ /\ status \in {"DEFAULT", "ADDRESSED"}
        /\ usbON' = FALSE
        /\ pc' = "recv"
        /\ UNCHANGED <<status, tx_succesfull, rxNE, rx_cnt>>
     \/ /\ status = "CONNECTED"
        /\ pc' = "recv"
        /\ UNCHANGED shared
  /\ UNCHANGED <<sending, serving, ep2, ep3, pcside>>

usb_proc ==
  /\ pc = "proc"
  /\ \/ /\ status = "CONFIGURED"
        /\ pc' = "init2"
        /\ UNCHANGED <<shared, sending>>
     \/ /\ status \in {"DEFAULT", "ADDRESSED"}
        /\ usbON' = FALSE
        /\ pc' = "recv"
        /\ UNCHANGED <<status, tx_succesfull, rxNE, rx_cnt, sending>>
     \/ /\ status = "CONNECTED" /\ usbON /\ tx_succesfull
        /\ send_next("recv")
        /\ UNCHANGED <<status, usbON, rxNE, rx_cnt>>
     \/ /\ status = "CONNECTED" /\ ~(usbON /\ tx_succesfull)
        /\ pc' = "recv"
        /\ UNCHANGED <<shared, sending>>
  /\ UNCHANGED <<serving, ep2, ep3, pcside>>

\* Mutant: EP_Init writes STAT as if the write did not flip it.
EP_Init2_PlainWrite ==
  /\ pc = "init2"
  /\ rxStat' = Flip(rxStat, VALID)
  /\ rxCtr' = FALSE
  /\ pc' = "init3"
  /\ UNCHANGED <<shared, sending, serving, rxBuf, ep3, pcside>>

\* EP_Init of EP2, of EP3, and the change to CONNECTED: three steps with
\* interrupts in between.  EP_Init first writes the register with zeroes in
\* the toggle fields and the CTR flags, then flips STAT to VALID or NAK.
EP_Init2 ==
  /\ pc = "init2"
  /\ rxStat' = Flip(rxStat, Flip(rxStat, VALID))
  /\ rxCtr' = FALSE
  /\ pc' = "init3"
  /\ UNCHANGED <<shared, sending, serving, rxBuf, ep3, pcside>>

EP_Init3 ==
  /\ pc = "init3"
  /\ txStat' = Flip(txStat, Flip(txStat, NAK))
  /\ txCtr' = FALSE
  /\ txBuf' = <<>>
  /\ pc' = "connect"
  /\ UNCHANGED <<shared, sending, serving, ep2, pcside>>

connect ==
  /\ pc = "connect"
  /\ status' = "CONNECTED"
  /\ pc' = "recv"
  /\ UNCHANGED <<usbON, tx_succesfull, rxNE, rx_cnt, sending, serving, ep2, ep3, pcside>>

\* usb_recv: the test, EP_Read, the register write that arms EP2 again, and
\* only then rxNE = 0.
usb_recv ==
  /\ pc = "recv"
  /\ pc' = IF usbON /\ rxNE THEN "read" ELSE "proc"
  /\ UNCHANGED <<shared, sending, serving, ep2, ep3, pcside>>

EP_Read ==
  /\ pc = "read"
  /\ \/ /\ rx_cnt > 0
        /\ packet' = rxBuf
        /\ todo' = requests[rxBuf]
        /\ sent' = 0
     \/ /\ rx_cnt = 0
        /\ todo' = <<>>
        /\ UNCHANGED <<packet, sent>>
  /\ rx_cnt' = 0
  /\ eptmp' = rxStat
  /\ pc' = "rearm"
  /\ UNCHANGED <<status, usbON, tx_succesfull, rxNE, ret, queue, lastdsz, usbbuff,
                 size, ep2, ep3, pcside>>

\* CTR_RX was read as 0, or the interrupt would have come first, and is
\* written back: a flag raised since is cleared with its packet unseen.
rearm ==
  /\ pc = "rearm"
  /\ rxStat' = Flip(rxStat, Flip(eptmp, VALID))
  /\ rxCtr' = FALSE
  /\ pc' = "clear"
  /\ UNCHANGED <<shared, sending, serving, rxBuf, ep3, pcside>>

clear ==
  /\ pc = "clear"
  /\ rxNE' = FALSE
  /\ pc' = "serve"
  /\ UNCHANGED <<status, usbON, tx_succesfull, rx_cnt, sending, serving, ep2, ep3, pcside>>

\* The request loop of main.c: the next usb_send call of the packet.
serve ==
  /\ pc = "serve"
  /\ \/ /\ todo = <<>>
        /\ pc' = "proc"
        /\ UNCHANGED <<todo, size, sent>>
     \/ /\ todo # <<>>
        /\ todo' = Tail(todo)
        /\ IF usbON THEN size' = Head(todo) - sent /\ pc' = "send" /\ UNCHANGED sent
                    ELSE sent' = Head(todo) /\ UNCHANGED <<pc, size>>
  /\ UNCHANGED <<shared, sending, packet, ep2, ep3, pcside>>

\* Mutant: the loop of usb_send does not wait for the packet in transmission.
usb_send_AnyTime ==
  /\ pc = "send"
  /\ \/ /\ size = 0
        /\ pc' = "serve"
        /\ UNCHANGED <<tx_succesfull, sending>>
     \/ /\ size > 0
        /\ send_next("write")
  /\ UNCHANGED <<status, usbON, rxNE, rx_cnt, serving, ep2, ep3, pcside>>

\* The loop of usb_send: start a packet if the last one is out, then write.
usb_send ==
  /\ pc = "send"
  /\ \/ /\ size = 0
        /\ pc' = "serve"
        /\ UNCHANGED <<tx_succesfull, sending>>
     \/ /\ size > 0 /\ tx_succesfull
        /\ send_next("write")
     \/ /\ size > 0 /\ ~tx_succesfull
        /\ pc' = "write"
        /\ UNCHANGED <<tx_succesfull, sending>>
  /\ UNCHANGED <<status, usbON, rxNE, rx_cnt, serving, ep2, ep3, pcside>>

\* Mutant: usb_send does not advance its pointer (buf += sent).
RB_write_Repeats ==
  /\ pc = "write"
  /\ LET str == [j \in 1 .. size |-> <<packet, sent + j>>]
         n   == Len(Fifo!Accepted(queue, str))
     IN  /\ queue' = queue \o Fifo!Accepted(queue, str)
         /\ size' = size - n
         /\ sent' = IF n = size THEN sent + n ELSE sent
  /\ pc' = "send"
  /\ UNCHANGED <<shared, ret, lastdsz, usbbuff, eptmp, packet, todo, ep2, ep3, pcside>>

\* Mutant: RB_write takes what it is given.
RB_write_Unbounded ==
  /\ pc = "write"
  /\ queue' = queue \o [j \in 1 .. size |-> <<packet, sent + j>>]
  /\ size' = 0
  /\ sent' = sent + size
  /\ pc' = "send"
  /\ UNCHANGED <<shared, ret, lastdsz, usbbuff, eptmp, packet, todo, ep2, ep3, pcside>>

RB_write ==
  /\ pc = "write"
  /\ LET str == [j \in 1 .. size |-> <<packet, sent + j>>]
         n   == Len(Fifo!Accepted(queue, str))
     IN  /\ queue' = queue \o Fifo!Accepted(queue, str)
         /\ size' = size - n
         /\ sent' = sent + n
  /\ pc' = "send"
  /\ UNCHANGED <<shared, ret, lastdsz, usbbuff, eptmp, packet, todo, ep2, ep3, pcside>>

\* EP_Write: copy the packet and its length, read EPnR, write EPnR.  The
\* write clears CTR_TX and flips STAT_TX by the difference between the value
\* read and VALID.
EP_WriteIRQ ==
  /\ pc = "copy"
  /\ txBuf' = usbbuff
  /\ pc' = "epread"
  /\ UNCHANGED <<shared, sending, serving, ep2, txStat, txCtr, pcside>>

EP_Write_read ==
  /\ pc = "epread"
  /\ eptmp' = txStat
  /\ pc' = "epwrite"
  /\ UNCHANGED <<shared, ret, queue, lastdsz, usbbuff, serving, ep2, ep3, pcside>>

EP_Write_write ==
  /\ pc = "epwrite"
  /\ txStat' = Flip(txStat, Flip(eptmp, VALID))
  /\ txCtr' = FALSE
  /\ pc' = ret
  /\ UNCHANGED <<shared, sending, serving, ep2, txBuf, pcside>>

Preempted == txCtr \/ rxCtr

Main ==
  \/ connect \/ rearm \/ clear \/ EP_Write_write
  \/ ~Preempted /\ \/ usb_proc \/ EP_Init2 \/ EP_Init3
                    \/ usb_recv \/ EP_Read \/ serve
                    \/ usb_send \/ RB_write
                    \/ EP_WriteIRQ \/ EP_Write_read

---------------------------------------------------------------------------
(* Interrupt handlers (USB_LP_CAN1_RX0_IRQHandler and what it calls).      *)

\* Mutants: a handler that acknowledges the interrupt and says nothing of it,
\* and one that arms EP2 again, as EP1_Handler does.
transmit_Handler_NoFlag ==
  /\ txCtr
  /\ txCtr' = FALSE
  /\ UNCHANGED <<shared, pc, sending, serving, ep2, txStat, txBuf, pcside>>

receive_Handler_NoFlag ==
  /\ rxCtr
  /\ rx_cnt' = 1
  /\ rxCtr' = FALSE
  /\ UNCHANGED <<status, usbON, tx_succesfull, rxNE, pc, sending, serving,
                 rxStat, rxBuf, ep3, pcside>>

receive_Handler_Rearms ==
  /\ rxCtr
  /\ rx_cnt' = 1
  /\ rxNE' = TRUE
  /\ rxCtr' = FALSE
  /\ rxStat' = VALID
  /\ UNCHANGED <<status, usbON, tx_succesfull, pc, sending, serving,
                 rxBuf, ep3, pcside>>

transmit_Handler ==
  /\ txCtr
  /\ tx_succesfull' = TRUE
  /\ txCtr' = FALSE
  /\ UNCHANGED <<status, usbON, rxNE, rx_cnt, pc, sending, serving, ep2,
                 txStat, txBuf, pcside>>

receive_Handler ==
  /\ rxCtr
  /\ rx_cnt' = 1
  /\ rxNE' = TRUE
  /\ rxCtr' = FALSE
  /\ UNCHANGED <<status, usbON, tx_succesfull, pc, sending, serving,
                 rxStat, rxBuf, ep3, pcside>>

\* A bus reset: the hardware disables the endpoints but keeps the CTR flags,
\* the handler forgets the terminal and the configuration.
BusReset ==
  /\ resets < plan.maxresets
  /\ resets' = resets + 1
  /\ usbON' = FALSE
  /\ status' = "DEFAULT"
  /\ rxStat' = DISABLED /\ txStat' = DISABLED
  /\ host' = "reset" /\ session' = Len(requests) /\ received' = <<>>
  /\ UNCHANGED <<tx_succesfull, rxNE, rx_cnt, pc, sending, serving,
                 rxCtr, rxBuf, txCtr, txBuf, plan, requests, offs>>

\* Control transfers to EP0, in the order a PC issues them.  A bus reset and
\* each transfer of an enumeration last far longer than a pass of the main
\* loop: at the next one usb_proc has acted on the last, unless the main loop
\* is kept in usb_send by a full buffer that nothing empties.
Spinning ==
  pc \in {"send", "write"} /\ size > 0 /\ ~tx_succesfull /\ Len(queue) = Capacity

Settled ==
  /\ ~Preempted
  /\ Spinning \/ (pc \in {"proc", "recv"} /\ status # "CONFIGURED")

Control(from, to) ==
  /\ host = from
  /\ host' = to
  /\ UNCHANGED <<tx_succesfull, rxNE, rx_cnt, pc, sending, serving, ep2, ep3,
                 plan, session, requests, received, resets>>

SetAddress ==
  /\ Control("reset", "addressed") /\ Settled
  /\ status' = "ADDRESSED"
  /\ UNCHANGED <<usbON, offs>>

SetConfiguration ==
  /\ Control("addressed", "configured") /\ Settled
  /\ status' = "CONFIGURED"
  /\ UNCHANGED <<usbON, offs>>

SetControlLineState ==
  /\ Control("configured", "open") /\ Settled
  /\ usbON' = TRUE
  /\ UNCHANGED <<status, offs>>

\* With the port open, at any time: SEND_BREAK, and the suspend interrupt,
\* clear usbON and nothing else, and SET_CONTROL_LINE_STATE sets it.
SwitchOff ==
  /\ offs < plan.maxoffs
  /\ Control("open", "open")
  /\ usbON' = FALSE
  /\ offs' = offs + 1
  /\ UNCHANGED status

SwitchOn ==
  /\ Control("open", "open")
  /\ ~usbON
  /\ usbON' = TRUE
  /\ UNCHANGED <<status, offs>>

---------------------------------------------------------------------------
(* The PC's bulk transfers, performed by the endpoint hardware.            *)

HostOut(r) ==
  /\ host = "open" /\ rxStat = VALID
  /\ Len(requests) < MaxPackets
  /\ Cardinality(Outstanding) < plan.window
  /\ requests' = Append(requests, r)
  /\ rxBuf' = Len(requests) + 1
  /\ rxStat' = NAK
  /\ rxCtr' = TRUE
  /\ UNCHANGED <<shared, pc, sending, serving, ep3, plan, host, session, received,
                 resets, offs>>

HostIn ==
  /\ host = "open" /\ txStat = VALID
  /\ received' = received \o txBuf
  /\ txStat' = NAK
  /\ txCtr' = TRUE
  /\ UNCHANGED <<shared, pc, sending, serving, ep2, txBuf, plan, host, session,
                 requests, resets, offs>>

Next ==
  \/ Main \/ transmit_Handler \/ receive_Handler
  \/ BusReset \/ SetAddress \/ SetConfiguration \/ SetControlLineState
  \/ SwitchOff \/ SwitchOn
  \/ HostIn \/ \E r \in plan.requests : HostOut(r)

Spec == Init /\ [][Next]_vars

\* The main loop never stops, a raised interrupt is taken, and a PC with the
\* port open keeps polling EP3 and completes an enumeration it has begun.
\* Nothing makes the PC send requests.
Fairness ==
  /\ WF_vars(Main)
  /\ WF_vars(transmit_Handler) /\ WF_vars(receive_Handler)
  /\ WF_vars(HostIn)
  /\ WF_vars(SetAddress) /\ WF_vars(SetConfiguration)
  /\ WF_vars(SetControlLineState)

FairSpec == Spec /\ Fairness

---------------------------------------------------------------------------

\* Types, and the capacities of the transmit buffer and of a packet.
TypeOK ==
  /\ status \in {"DEFAULT", "ADDRESSED", "CONFIGURED", "CONNECTED"}
  /\ {usbON, tx_succesfull, rxNE, rxCtr, txCtr} \subseteq BOOLEAN
  /\ rx_cnt \in {0, 1}
  /\ pc \in {"proc", "init2", "init3", "connect", "recv", "read", "rearm", "clear",
             "serve", "send", "write", "copy", "epread", "epwrite"}
  /\ ret \in {"recv", "write"}
  /\ {rxStat, txStat, eptmp} \subseteq Stat
  /\ Len(queue) \in 0 .. Capacity
  /\ {Len(usbbuff), Len(txBuf), lastdsz} \subseteq 0 .. Block
  /\ {packet, rxBuf, session} \subseteq 0 .. Len(requests)
  /\ host \in {"reset", "addressed", "configured", "open"}

\* The PC the protocol has in mind: one request at a time, on a bus that is
\* not disturbed, and no run of usb_send calls that amounts to full packets
\* (whatever the moment at which usb_proc empties the buffer, its last packet
\* is then a short one).
Orderly ==
  /\ plan.window = 1 /\ plan.maxresets = 0 /\ plan.maxoffs = 0
  /\ \A r \in plan.requests : \A i, j \in 0 .. Len(r) :
       i < j => (End(r, j) - End(r, i)) % Block # 0

\* An orderly PC receives the answers to its requests in order, with no byte
\* lost, repeated or made up (usb_send, send_next, EP_Write).
InOrder ==
  Orderly => \A i \in 1 .. Len(received) :
    /\ received[i] = IF i = 1 THEN <<1, 1>> ELSE Sequel(received[i - 1])
    /\ received[i][1] <= Len(requests)
    /\ received[i][2] <= Total(requests[received[i][1]])

\* A cleared tx_succesfull is always on its way to being set again: main is
\* inside EP_Write, or the packet is armed, or its completion is pending.
\* Without this send_next is never called again and usb_send loops forever.
NoWedge ==
  Orderly /\ status = "CONNECTED" /\ ~tx_succesfull =>
    pc \in {"copy", "epread", "epwrite"} \/ txStat = VALID \/ txCtr

\* The main loop never rewrites the packet memory of EP3 while the hardware
\* may be transmitting it (the test of tx_succesfull before send_next).
BufferOwned == Orderly /\ pc = "copy" => txStat # VALID

\* A packet that waits in EP2 with reception stopped is one the main loop
\* has been or will be told of: rxNE is not cleared over a new packet.
NoLostPacket ==
  Orderly /\ status = "CONNECTED" /\ host = "open" /\ rxStat = NAK => rxCtr \/ rxNE

\* The hardware never overwrites a request that usb_recv has not read.
RxBufferKept ==
  [][rxBuf' # rxBuf => rxBuf = packet \/ rxBuf <= session]_vars

\* When the PC may send, a device that says CONNECTED has both its bulk
\* endpoints enabled, whatever resets interrupted usb_proc.
EndpointsReady ==
  host = "open" /\ status = "CONNECTED" => DISABLED \notin {rxStat, txStat}

\* "Bluepill should response to each of them" (README of debug): every
\* request is answered in full, unless the bus is reset meanwhile.
EachAnswered ==
  \A k \in 1 .. MaxPackets :
    (Len(requests) >= k /\ k > session)
      ~> (k <= session \/ (Len(requests) >= k /\ Answered(k)))

\* Every request of an orderly PC is answered in full.
AllAnswered ==
  \A k \in 1 .. MaxPackets :
    (Orderly /\ Len(requests) >= k) ~> (Len(requests) >= k /\ Answered(k))

\* "USB_STATE_CONNECTED - send next data portion" (usb_proc): a device whose
\* port is open becomes able to send again, or is switched off.
SendsAgain == (status = "CONNECTED" /\ usbON) ~> (tx_succesfull \/ ~usbON)

\* "set TX VALID to start transmission" (EP_Write): whenever EP_Write
\* returns, the endpoint is armed with the packet it was given.
StartsTransmission ==
  [][pc = "epwrite" /\ pc' # pc /\ UNCHANGED resets => txStat' = VALID]_vars

\* "Only PC side sends requests and Bluepill responses after each request":
\* what the PC reads after a bus reset answers requests sent after it.
NoStaleAnswer == \A i \in 1 .. Len(received) : received[i][1] > session
==========================================================================
