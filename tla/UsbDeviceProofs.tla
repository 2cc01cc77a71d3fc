-------------------------- MODULE UsbDeviceProofs --------------------------
(***************************************************************************)
(* Proofs about UsbDevice, for every buffer, packet and plan of the PC:    *)
(* types and capacities; no unread request is overwritten and no disabled  *)
(* endpoint is offered, whatever the PC does; and, with an orderly PC, the *)
(* answers arrive in order and the transmitter does not get stuck.         *)
(***************************************************************************)
EXTENDS UsbDevice, TLAPS, FiniteSetTheorems, SequenceTheorems

Bytes == Nat \X Nat
Lengths == Nat \ {0}

Loading == pc \in {"copy", "epread", "epwrite"}

\* The main loop is inside a call of usb_send.
InSend == pc \in {"send", "write"} \/ (Loading /\ ret = "write")

---------------------------------------------------------------------------
(* Types, and the progress of the request being answered.                  *)

\* (The SMT solver does not see TRUE and FALSE as elements of BOOLEAN.)
Flag(b) == b = TRUE \/ b = FALSE

Typed ==
  /\ plan \in Plans
  /\ status \in {"DEFAULT", "ADDRESSED", "CONFIGURED", "CONNECTED"}
  /\ Flag(usbON) /\ Flag(tx_succesfull) /\ Flag(rxNE) /\ Flag(rxCtr) /\ Flag(txCtr)
  /\ rx_cnt \in {0, 1}
  /\ pc \in {"proc", "init2", "init3", "connect", "recv", "read", "rearm", "clear",
             "serve", "send", "write", "copy", "epread", "epwrite"}
  /\ ret \in {"recv", "write"}
  /\ rxStat \in Stat /\ txStat \in Stat /\ eptmp \in Stat
  /\ queue \in Seq(Bytes) /\ Len(queue) <= Capacity
  /\ usbbuff \in Seq(Bytes) /\ Len(usbbuff) <= Block
  /\ txBuf \in Seq(Bytes) /\ Len(txBuf) <= Block
  /\ lastdsz \in 0 .. Block
  /\ received \in Seq(Bytes)
  /\ requests \in Seq(plan.requests)
  /\ packet \in 0 .. Len(requests) /\ rxBuf \in 0 .. Len(requests)
  /\ session \in 0 .. Len(requests)
  /\ host \in {"reset", "addressed", "configured", "open"}
  /\ todo \in Seq(Lengths) /\ sent \in Nat /\ size \in Nat
  /\ resets \in Nat /\ offs \in Nat

\* d calls of the request are over or, the last of them, in progress.
Served(d) ==
  /\ Len(todo) = Len(requests[packet]) - d
  /\ \A i \in 1 .. Len(todo) : todo[i] = requests[packet][d + i]
  /\ sent + size = End(requests[packet], d)

Progress ==
  /\ packet = 0 => todo = <<>> /\ sent = 0 /\ size = 0
  /\ packet # 0 => \E d \in 0 .. Len(requests[packet]) : Served(d)
  /\ size # 0 => InSend
  /\ todo # <<>> => pc \in {"rearm", "clear", "serve"} \/ InSend
  /\ rxCtr \/ rx_cnt > 0 => rxBuf > 0

Types == Typed /\ Progress

---------------------------------------------------------------------------
(* The session, and what the endpoint registers hold in it.                *)

\* No packet has been sent in this session that EP2 could lose.
Fresh == host # "open" \/ pc = "init2"
           \/ (status = "CONFIGURED" /\ pc \notin {"init3", "connect"})

Session ==
  /\ usbON => host = "open"
  /\ host = "reset" => status \in {"DEFAULT", "CONNECTED"}
  /\ host = "addressed" => status = "ADDRESSED"
  /\ host \in {"configured", "open"} => status \in {"CONFIGURED", "CONNECTED"}
  /\ pc \in {"init2", "init3", "connect"} => host = "reset" \/ status = "CONFIGURED"
  /\ host = "open" /\ status = "CONFIGURED" =>
       InSend \/ pc \in {"serve", "proc", "init2", "init3", "connect"}
  /\ host # "open" /\ InSend => rxStat = DISABLED
  /\ host = "open" /\ status = "CONFIGURED" /\ pc \notin {"init3", "connect"} =>
       rxStat # VALID
  /\ Fresh => session = Len(requests)

\* EP2 is armed only over a packet that has been read or is of an old session.
Old == rxBuf = packet \/ rxBuf <= session

\* A packet whose flag the write that arms EP2 has cleared: nothing arms EP2
\* over it, as nothing tells the main loop of it.
Unseen ==
  /\ rxStat # VALID
  /\ pc = "clear" \/ (pc \notin {"read", "rearm"} /\ ~rxNE)

Reception ==
  /\ Old \/ rxCtr \/ rx_cnt = 1 \/ Unseen
  /\ rxStat = VALID => Old
  /\ pc = "rearm" => Old \/ (eptmp = VALID /\ rxStat = NAK)
  /\ pc = "rearm" /\ rxStat = VALID => eptmp = VALID

\* Only a bus reset separates a register from the value EP_Write or usb_recv
\* has read of it, except that the hardware may have used the endpoint.
Registers ==
  /\ pc = "rearm" /\ host # "reset" =>
       rxStat = eptmp \/ (eptmp = VALID /\ rxStat = NAK)
  /\ pc = "epwrite" /\ host # "reset" =>
       txStat = eptmp \/ (eptmp = VALID /\ txStat = NAK)
  /\ pc \in {"init3", "connect"} /\ host # "reset" => rxStat # DISABLED
  /\ pc = "connect" /\ host # "reset" => txStat # DISABLED
  /\ host \in {"configured", "open"} /\ status = "CONNECTED" =>
       rxStat # DISABLED /\ txStat # DISABLED

AnyPlan == Types /\ Session /\ Reception /\ Registers

---------------------------------------------------------------------------
(* An orderly PC.                                                          *)

\* Before the port is opened nothing has happened but the enumeration.
Quiet ==
  /\ pc \in {"proc", "init2", "init3", "connect", "recv"}
  /\ requests = <<>> /\ received = <<>> /\ packet = 0
  /\ queue = <<>> /\ lastdsz = 0
  /\ ~rxNE /\ rx_cnt = 0 /\ ~rxCtr
  /\ tx_succesfull /\ ~txCtr /\ txStat # VALID
  /\ host = "reset" => status = "DEFAULT"
  /\ pc \in {"init2", "init3", "connect"} => status = "CONFIGURED"
  /\ pc \in {"init3", "connect"} \/ status = "CONNECTED" => rxStat = VALID
  /\ pc = "connect" \/ status = "CONNECTED" => txStat = NAK

\* The stages of a request packet between EP2 and the main loop.
Idle == /\ rxStat = VALID /\ ~rxCtr /\ ~rxNE /\ rx_cnt = 0 /\ packet = rxBuf
        /\ pc \notin {"read", "rearm", "clear"}
Raised == /\ rxStat = NAK /\ rxCtr /\ ~rxNE /\ rx_cnt = 0 /\ packet = rxBuf - 1
          /\ pc \notin {"read", "rearm", "clear"}
Noted == /\ rxStat = NAK /\ ~rxCtr /\ rxNE /\ rx_cnt = 1 /\ packet = rxBuf - 1
         /\ pc \notin {"rearm", "clear"}
Taken == /\ rxStat = NAK /\ ~rxCtr /\ rxNE /\ rx_cnt = 0 /\ packet = rxBuf
         /\ pc = "rearm" /\ eptmp = NAK /\ packet # 0 /\ sent = 0
Armed == /\ rxStat = VALID /\ ~rxCtr /\ rxNE /\ rx_cnt = 0 /\ packet = rxBuf
         /\ pc = "clear" /\ packet # 0 /\ sent = 0
Stage == Idle \/ Raised \/ Noted \/ Taken \/ Armed

\* Bytes of the current answer handed to EP3, and how many of them received.
Handed == sent - Len(queue)
Flying == ~tx_succesfull /\ ~txCtr
Got == IF Flying THEN Handed - Len(usbbuff) ELSE Handed

\* One packet at a time: none, in EP_Write, armed, or taken by the PC.
Transmission ==
  /\ tx_succesfull => ~txCtr /\ txStat # VALID /\ ~Loading
  /\ txCtr => txStat # VALID /\ ~Loading
  /\ Flying => (Loading <=> txStat # VALID)
  /\ Flying /\ pc # "copy" => txBuf = usbbuff
  /\ pc = "epwrite" => eptmp = txStat

\* The bytes are those of the current answer, from the oldest in EP3 to the
\* newest in the buffer.
Contents ==
  /\ Len(queue) <= sent
  /\ \A j \in 1 .. Len(queue) : queue[j] = <<packet, Handed + j>>
  /\ Flying =>
       /\ usbbuff # <<>> /\ Len(usbbuff) <= Handed
       /\ \A j \in 1 .. Len(usbbuff) : usbbuff[j] = <<packet, Got + j>>

\* No answer leaves the buffer empty after a full packet, so that send_next
\* never starts a zero-length one.
Cut(n) == \E i \in 0 .. Len(requests[packet]) : \E m \in 0 .. n :
            n = End(requests[packet], i) + m * Block

Whole == \E i \in 0 .. Len(requests[packet]) : sent = End(requests[packet], i)

Packets ==
  /\ packet # 0 => Cut(Handed)
  /\ packet # 0 /\ pc = "send" => size = 0 \/ Whole \/ Len(queue) = Capacity
  /\ lastdsz = Block /\ queue = <<>> => InSend /\ pc # "send" /\ size > 0

\* What the PC has received: a chain of bytes up to the Got-th of the current
\* answer; when the next request is there, all of it.
Arrival ==
  /\ \A i \in 1 .. Len(received) :
       /\ received[i] = IF i = 1 THEN <<1, 1>> ELSE Sequel(received[i - 1])
       /\ received[i][1] \in 1 .. packet
       /\ received[i][2] \in 1 .. Total(requests[received[i][1]])
       /\ received[i][1] = packet => received[i][2] <= Got
  /\ received = <<>> => Got = 0 /\ packet <= 1
  /\ received # <<>> =>
       received[Len(received)] = IF Got > 0 THEN <<packet, Got>>
                                 ELSE <<packet - 1, Total(requests[packet - 1])>>

Awaited ==
  /\ rxBuf = Len(requests)
  /\ packet # rxBuf =>
       /\ todo = <<>> /\ size = 0 /\ queue = <<>> /\ ~Flying
       /\ packet # 0 => sent > 0 /\ sent = Total(requests[packet])

Connected ==
  /\ status = "CONNECTED" /\ usbON /\ session = 0
  /\ pc \notin {"init2", "init3", "connect"}
  /\ txStat = NAK \/ txStat = VALID

Open == Connected /\ Stage /\ Awaited /\ Transmission /\ Contents /\ Packets /\ Arrival

OrderlyInv ==
  Orderly => session = 0 /\ (host # "open" => Quiet) /\ (host = "open" => Open)

USE DEF Flag

---------------------------------------------------------------------------
(* The register fields.                                                    *)

\* A write of the difference between what a field holds and bits makes it
\* hold bits; a write made for another value than the field holds does not.
LEMMA FlipFacts ==
  /\ DISABLED \in Stat /\ NAK \in Stat /\ VALID \in Stat
  /\ DISABLED # NAK /\ DISABLED # VALID /\ NAK # VALID
  /\ \A a, b \in Stat : Flip(a, b) \in Stat
  /\ \A a, b : Flip(a, Flip(a, b)) = b
  /\ \A a, b \in Stat : Flip(a, Flip(b, VALID)) = VALID => a = b
  /\ Flip(NAK, Flip(VALID, VALID)) = NAK
<1>1. DISABLED \in Stat /\ NAK \in Stat /\ VALID \in Stat
  BY DEF DISABLED, NAK, VALID, Stat
<1>6. DISABLED # NAK /\ DISABLED # VALID /\ NAK # VALID
  <2>1. 1 \notin DISABLED /\ 1 \in NAK /\ 1 \in VALID /\ 0 \notin NAK /\ 0 \in VALID
    BY DEF DISABLED, NAK, VALID
  <2>. QED BY <2>1
<1>2. \A a, b \in Stat : Flip(a, b) \in Stat
  BY DEF Flip, Stat
<1>3. \A a, b : Flip(a, Flip(a, b)) = b
  BY DEF Flip
<1>4. \A a, b \in Stat : Flip(a, Flip(b, VALID)) = VALID => a = b
  BY DEF Flip, Stat
<1>5. Flip(NAK, Flip(VALID, VALID)) = NAK
  BY DEF Flip, NAK, VALID
<1>. QED
  BY <1>1, <1>2, <1>3, <1>4, <1>5, <1>6

---------------------------------------------------------------------------
(* The transmit buffer.                                                    *)

\* What a read takes and leaves, byte by byte.
LEMMA ReadFacts ==
  ASSUME NEW S, NEW q \in Seq(S)
  PROVE  /\ Fifo!Portion(q) \in Seq(S) /\ Fifo!Remainder(q) \in Seq(S)
         /\ Len(Fifo!Portion(q)) = Fifo!Lesser(Len(q), Block)
         /\ Len(Fifo!Remainder(q)) = Len(q) - Len(Fifo!Portion(q))
         /\ \A i \in 1 .. Len(Fifo!Portion(q)) : Fifo!Portion(q)[i] = q[i]
         /\ \A i \in 1 .. Len(Fifo!Remainder(q)) :
              Fifo!Remainder(q)[i] = q[Len(Fifo!Portion(q)) + i]
         /\ Len(Fifo!Portion(q)) \in 0 .. Block
         /\ q # <<>> => Len(Fifo!Portion(q)) > 0
<1>. DEFINE n == Fifo!Lesser(Len(q), Block)
<1>1. n \in 0 .. Len(q) /\ n \in 0 .. Block /\ (q # <<>> => n > 0)
  BY UsbAssumption DEF Fifo!Lesser
<1>2. /\ Fifo!Portion(q) \in Seq(S) /\ Len(Fifo!Portion(q)) = n
      /\ \A i \in 1 .. n : Fifo!Portion(q)[i] = q[i]
  <2>1. \A i \in 1 .. n : q[i] \in S
    BY <1>1
  <2>. QED BY <1>1, <2>1, SubSeqProperties DEF Fifo!Portion
<1>3. /\ Fifo!Remainder(q) \in Seq(S) /\ Len(Fifo!Remainder(q)) = Len(q) - n
      /\ \A i \in 1 .. Len(q) - n : Fifo!Remainder(q)[i] = q[n + i]
  <2>1. \A i \in n + 1 .. Len(q) : q[i] \in S
    BY <1>1
  <2>. QED BY <1>1, <2>1, SubSeqProperties DEF Fifo!Remainder
<1>. QED
  BY <1>1, <1>2, <1>3

\* What a write stores: a prefix that fits, nonempty unless the buffer is full.
LEMMA WriteFacts ==
  ASSUME NEW S, NEW q \in Seq(S), Len(q) <= Capacity, NEW str \in Seq(S)
  PROVE  /\ Fifo!Accepted(q, str) \in Seq(S)
         /\ Len(Fifo!Accepted(q, str)) = Fifo!Lesser(Len(str), Capacity - Len(q))
         /\ Len(Fifo!Accepted(q, str)) \in 0 .. Len(str)
         /\ Len(q) + Len(Fifo!Accepted(q, str)) <= Capacity
         /\ Len(Fifo!Accepted(q, str)) = Len(str)
              \/ Len(q) + Len(Fifo!Accepted(q, str)) = Capacity
         /\ \A i \in 1 .. Len(Fifo!Accepted(q, str)) :
              Fifo!Accepted(q, str)[i] = str[i]
<1>. DEFINE n == Fifo!Lesser(Len(str), Capacity - Len(q))
<1>1. /\ n \in 0 .. Len(str) /\ Len(q) + n <= Capacity
      /\ n = Len(str) \/ Len(q) + n = Capacity
  BY UsbAssumption DEF Fifo!Lesser
<1>2. \A i \in 1 .. n : str[i] \in S
  BY <1>1
<1>. QED
  BY <1>1, <1>2, SubSeqProperties DEF Fifo!Accepted

---------------------------------------------------------------------------
(* Types and progress are invariants.                                      *)

\* A request the PC has sent is an ascending sequence of lengths.
LEMMA RequestFacts ==
  ASSUME Typed, NEW k \in 1 .. Len(requests)
  PROVE  /\ requests[k] \in Seq(Lengths) /\ Ascending(requests[k])
         /\ \A i \in 0 .. Len(requests[k]) : End(requests[k], i) \in Nat
         /\ Total(requests[k]) = End(requests[k], Len(requests[k]))
<1>1. requests[k] \in plan.requests
  BY DEF Typed
<1>2. requests[k] \in Seq(Lengths) /\ Ascending(requests[k])
  BY <1>1, UsbAssumption DEF Typed, Lengths
<1>. QED
  BY <1>2 DEF End, Total, Lengths

LEMMA EmptyFacts ==
  ASSUME NEW S
  PROVE  <<>> \in Seq(S) /\ Len(<<>>) = 0
  OBVIOUS

LEMMA TypesInit == Init => Types
<1>. SUFFICES ASSUME Init PROVE Types
  OBVIOUS
<1>1. /\ <<>> \in Seq(Bytes) /\ <<>> \in Seq(Lengths)
      /\ <<>> \in Seq(plan.requests) /\ Len(<<>>) = 0
  BY EmptyFacts
<1>2. 0 <= Capacity /\ 0 \in 0 .. Block
  BY UsbAssumption
<1>3. Typed
  <2>1. plan \in Plans
    BY DEF Init
  <2>2. rxStat \in Stat /\ txStat \in Stat /\ eptmp \in Stat
    BY FlipFacts DEF Init
  <2>3. /\ queue \in Seq(Bytes) /\ Len(queue) <= Capacity
        /\ usbbuff \in Seq(Bytes) /\ Len(usbbuff) <= Block
        /\ txBuf \in Seq(Bytes) /\ Len(txBuf) <= Block
        /\ lastdsz \in 0 .. Block
        /\ received \in Seq(Bytes)
        /\ todo \in Seq(Lengths)
    BY <1>1, <1>2, UsbAssumption DEF Init
  <2>4. requests \in Seq(plan.requests) /\ Len(requests) = 0
    BY <1>1 DEF Init
  <2>. QED BY <2>1, <2>2, <2>3, <2>4 DEF Init, Typed
<1>4. Progress
  BY DEF Init, Progress
<1>. QED BY <1>3, <1>4 DEF Types

LEMMA TypedSendNext ==
  ASSUME Typed, NEW caller \in {"recv", "write"}, send_next(caller)
  PROVE  /\ queue' \in Seq(Bytes) /\ Len(queue') <= Capacity
         /\ usbbuff' \in Seq(Bytes) /\ Len(usbbuff') <= Block
         /\ lastdsz' \in 0 .. Block /\ Flag(tx_succesfull')
         /\ ret' = caller /\ eptmp' = eptmp
         /\ pc' = "copy" \/ pc' = caller
<1>1. CASE queue # <<>>
  <2>1. queue \in Seq(Bytes) /\ Len(queue) <= Capacity
    BY DEF Typed
  <2>2. /\ usbbuff' = Fifo!Portion(queue) /\ queue' = Fifo!Remainder(queue)
        /\ lastdsz' = Len(usbbuff') /\ tx_succesfull' = FALSE
        /\ pc' = "copy" /\ ret' = caller /\ eptmp' = eptmp
    BY <1>1 DEF send_next
  <2>3. Capacity \in Nat /\ Block \in Nat
    BY UsbAssumption
  <2>4. /\ Fifo!Portion(queue) \in Seq(Bytes) /\ Fifo!Remainder(queue) \in Seq(Bytes)
        /\ Len(Fifo!Portion(queue)) \in 0 .. Block
        /\ Len(Fifo!Remainder(queue)) = Len(queue) - Len(Fifo!Portion(queue))
    BY <2>1, ReadFacts
  <2>. QED BY <2>1, <2>2, <2>3, <2>4
<1>2. CASE queue = <<>>
  <2>1. <<>> \in Seq(Bytes) /\ Len(<<>>) = 0 /\ 0 <= Capacity /\ 0 \in 0 .. Block
    BY EmptyFacts, UsbAssumption
  <2>. QED BY <1>2, <2>1 DEF send_next, Typed
<1>. QED BY <1>1, <1>2

\* The calls of a request that are left complete more than is answered.
LEMMA ProgressFacts ==
  ASSUME Typed, Progress
  PROVE  /\ todo # <<>> => Head(todo) \in Nat /\ sent + size < Head(todo)
         /\ todo # <<>> => packet # 0 /\ Head(todo) <= Total(requests[packet])
         /\ packet # 0 => sent + size <= Total(requests[packet])
<1>1. CASE packet = 0
  BY <1>1 DEF Progress
<1>2. CASE packet # 0
  <2>. DEFINE r == requests[packet]
  <2>1. packet \in 1 .. Len(requests)
    BY <1>2 DEF Typed
  <2>2. /\ r \in Seq(Lengths) /\ Ascending(r)
        /\ Total(r) = End(r, Len(r))
    BY <2>1, RequestFacts
  <2>3. PICK d \in 0 .. Len(r) : Served(d)
    BY <1>2 DEF Progress
  <2>4. todo # <<>> => Head(todo) = r[d + 1] /\ d + 1 <= Len(r) /\ r[d + 1] \in Nat
    <3>1. ASSUME todo # <<>>
          PROVE  Len(todo) \in Nat /\ 1 \in 1 .. Len(todo) /\ Head(todo) = todo[1]
      BY <3>1 DEF Typed
    <3>2. Len(r) \in Nat /\ \A i \in 1 .. Len(r) : r[i] \in Nat
      BY <2>2 DEF Lengths
    <3>. QED BY <2>3, <3>1, <3>2 DEF Served
  <2>5. d + 1 <= Len(r) => End(r, d) < r[d + 1]
    BY <2>2, <2>3 DEF End, Ascending, Lengths
  <2>6. End(r, d) <= End(r, Len(r))
    BY <2>2, <2>3 DEF End, Ascending, Lengths
  <2>7. d + 1 <= Len(r) => r[d + 1] <= End(r, Len(r))
    BY <2>2, <2>3 DEF End, Ascending, Lengths
  <2>. QED BY <1>2, <2>2, <2>3, <2>4, <2>5, <2>6, <2>7 DEF Served
<1>. QED BY <1>1, <1>2

\* A call of RB_write adds the next bytes of the answer to the buffer: all
\* that are left of the usb_send call, or as many as fill it.
LEMMA WriteStep ==
  ASSUME Typed, RB_write
  PROVE  \E n \in 0 .. size :
           /\ queue' \in Seq(Bytes) /\ Len(queue') = Len(queue) + n
           /\ Len(queue') <= Capacity
           /\ n = size \/ Len(queue') = Capacity
           /\ \A j \in 1 .. Len(queue) : queue'[j] = queue[j]
           /\ \A j \in 1 .. n : queue'[Len(queue) + j] = <<packet, sent + j>>
           /\ size' = size - n /\ sent' = sent + n
<1>. DEFINE str == [j \in 1 .. size |-> <<packet, sent + j>>]
            w   == Fifo!Accepted(queue, str)
<1>1. str \in Seq(Bytes) /\ Len(str) = size /\ \A j \in 1 .. size : str[j] = <<packet, sent + j>>
  BY DEF Typed, Bytes
<1>2. /\ w \in Seq(Bytes) /\ Len(w) \in 0 .. size /\ Len(queue) + Len(w) <= Capacity
      /\ Len(w) = size \/ Len(queue) + Len(w) = Capacity
      /\ \A j \in 1 .. Len(w) : w[j] = str[j]
  <2>1. queue \in Seq(Bytes) /\ Len(queue) <= Capacity
    BY DEF Typed
  <2>. HIDE DEF str
  <2>. QED BY <1>1, <2>1, WriteFacts
<1>3. queue' = queue \o w /\ size' = size - Len(w) /\ sent' = sent + Len(w)
  BY DEF RB_write
<1>4. /\ queue' \in Seq(Bytes) /\ Len(queue') = Len(queue) + Len(w)
      /\ \A j \in 1 .. Len(queue) : queue'[j] = queue[j]
      /\ \A j \in 1 .. Len(w) : queue'[Len(queue) + j] = w[j]
  <2>1. queue \in Seq(Bytes)
    BY DEF Typed
  <2>. HIDE DEF w
  <2>. QED BY <1>2, <1>3, <2>1, ConcatProperties
<1>. HIDE DEF w, str
<1>5. \A j \in 1 .. Len(w) : w[j] = <<packet, sent + j>>
  BY <1>1, <1>2
<1>. QED BY <1>2, <1>3, <1>4, <1>5

LEMMA TypedMain ==
  ASSUME Typed, Progress, Main
  PROVE  Typed'
<1>. USE DEF shared, sending, serving, ep2, ep3, pcside
<1>1. CASE connect
  BY <1>1 DEF connect, Typed
<1>2. CASE rearm
  BY <1>2, FlipFacts DEF rearm, Typed
<1>3. CASE clear
  BY <1>3 DEF clear, Typed
<1>4. CASE EP_Write_write
  BY <1>4, FlipFacts DEF EP_Write_write, Typed
<1>5. CASE usb_proc
  <2>1. CASE send_next("recv") /\ UNCHANGED <<status, usbON, rxNE, rx_cnt>>
    BY <1>5, <2>1, TypedSendNext DEF usb_proc, Typed
  <2>2. CASE UNCHANGED <<status, tx_succesfull, rxNE, rx_cnt, sending>>
    <3>1. Flag(usbON') /\ (pc' = "init2" \/ pc' = "recv" \/ pc' = "copy")
      BY <1>5, <2>2, TypedSendNext DEF usb_proc, Typed
    <3>. QED BY <1>5, <2>2, <3>1 DEF usb_proc, Typed
  <2>. QED BY <1>5, <2>1, <2>2 DEF usb_proc
<1>6. CASE EP_Init2
  BY <1>6, FlipFacts DEF EP_Init2, Typed
<1>7. CASE EP_Init3
  <2>1. <<>> \in Seq(Bytes) /\ Len(<<>>) <= Block
    BY EmptyFacts, UsbAssumption
  <2>. QED BY <1>7, <2>1, FlipFacts DEF EP_Init3, Typed
<1>8. CASE usb_recv
  BY <1>8 DEF usb_recv, Typed
<1>9. CASE EP_Read
  <2>1. rx_cnt > 0 => rxBuf \in 1 .. Len(requests)
    BY DEF Typed, Progress
  <2>2. packet' \in 0 .. Len(requests) /\ todo' \in Seq(Lengths) /\ sent' \in Nat
    <3>1. CASE rx_cnt > 0
      <4>1. packet' = rxBuf /\ todo' = requests[rxBuf] /\ sent' = 0
        BY <1>9, <3>1 DEF EP_Read
      <4>2. requests[rxBuf] \in Seq(Lengths)
        BY <2>1, <3>1, RequestFacts
      <4>. QED BY <2>1, <3>1, <4>1, <4>2
    <3>2. CASE rx_cnt = 0
      BY <1>9, <3>2, EmptyFacts DEF EP_Read, Typed
    <3>. QED BY <3>1, <3>2 DEF Typed
  <2>. QED BY <1>9, <2>2 DEF EP_Read, Typed
<1>10. CASE serve
  <2>1. todo # <<>> => Head(todo) \in Nat /\ sent + size < Head(todo)
    BY ProgressFacts
  <2>2. todo # <<>> => Tail(todo) \in Seq(Lengths)
    BY HeadTailProperties DEF Typed
  <2>3. size = 0
    BY <1>10 DEF serve, Progress, InSend, Loading
  <2>4. todo' \in Seq(Lengths) /\ sent' \in Nat /\ size' \in Nat
    <3>1. CASE todo = <<>>
      BY <1>10, <3>1 DEF serve, Typed
    <3>2. CASE todo # <<>> /\ usbON
      <4>1. todo' = Tail(todo) /\ size' = Head(todo) - sent /\ sent' = sent
        BY <1>10, <3>2 DEF serve
      <4>. QED BY <2>1, <2>2, <2>3, <3>2, <4>1 DEF Typed
    <3>3. CASE todo # <<>> /\ ~usbON
      BY <1>10, <2>1, <2>2, <3>3 DEF serve, Typed
    <3>. QED BY <3>1, <3>2, <3>3
  <2>. QED BY <1>10, <2>4 DEF serve, Typed
<1>11. CASE usb_send
  <2>1. CASE send_next("write")
    BY <1>11, <2>1, TypedSendNext DEF usb_send, Typed
  <2>2. CASE UNCHANGED <<tx_succesfull, sending>> /\ pc' \in {"serve", "write"}
    BY <1>11, <2>2 DEF usb_send, Typed
  <2>. QED BY <1>11, <2>1, <2>2 DEF usb_send
<1>12. CASE RB_write
  <2>1. /\ queue' \in Seq(Bytes) /\ Len(queue') <= Capacity
        /\ size' \in Nat /\ sent' \in Nat
    <3>1. PICK n \in 0 .. size :
            /\ queue' \in Seq(Bytes) /\ Len(queue') <= Capacity
            /\ size' = size - n /\ sent' = sent + n
      BY <1>12, WriteStep
    <3>. QED BY <3>1 DEF Typed
  <2>. QED BY <1>12, <2>1 DEF RB_write, Typed
<1>13. CASE EP_WriteIRQ
  BY <1>13 DEF EP_WriteIRQ, Typed
<1>14. CASE EP_Write_read
  BY <1>14 DEF EP_Write_read, Typed
<1>. QED
  BY <1>1, <1>2, <1>3, <1>4, <1>5, <1>6, <1>7, <1>8, <1>9, <1>10, <1>11, <1>12,
     <1>13, <1>14 DEF Main

LEMMA TypedOther ==
  ASSUME Typed, Next, ~Main
  PROVE  Typed'
<1>. USE DEF shared, sending, serving, ep2, ep3, pcside
<1>1. CASE transmit_Handler
  BY <1>1 DEF transmit_Handler, Typed
<1>2. CASE receive_Handler
  BY <1>2 DEF receive_Handler, Typed
<1>3. CASE BusReset
  BY <1>3, FlipFacts, EmptyFacts DEF BusReset, Typed
<1>4. CASE SetAddress
  BY <1>4 DEF SetAddress, Control, Typed
<1>5. CASE SetConfiguration
  BY <1>5 DEF SetConfiguration, Control, Typed
<1>6. CASE SetControlLineState
  BY <1>6 DEF SetControlLineState, Control, Typed
<1>7. CASE SwitchOff
  BY <1>7 DEF SwitchOff, Control, Typed
<1>8. CASE SwitchOn
  BY <1>8 DEF SwitchOn, Control, Typed
<1>9. CASE HostIn
  <2>1. received' \in Seq(Bytes)
    BY <1>9, ConcatProperties DEF HostIn, Typed
  <2>. QED BY <1>9, <2>1, FlipFacts DEF HostIn, Typed
<1>10. ASSUME NEW r \in plan.requests, HostOut(r)
       PROVE  Typed'
  <2>1. requests' \in Seq(plan.requests) /\ Len(requests') = Len(requests) + 1
    BY <1>10, AppendProperties DEF HostOut, Typed
  <2>. QED BY <1>10, <2>1, FlipFacts DEF HostOut, Typed
<1>. QED
  BY <1>1, <1>2, <1>3, <1>4, <1>5, <1>6, <1>7, <1>8, <1>9, <1>10 DEF Next

LEMMA ProgressOther ==
  ASSUME Typed, Progress, Next, ~Main
  PROVE  Progress'
<1>. USE DEF shared, sending, serving, ep2, ep3, pcside, InSend, Loading
<1>1. CASE UNCHANGED <<requests, pc, sending, serving, rxBuf>>
           /\ (rxCtr' \/ rx_cnt' > 0 => rxCtr \/ rx_cnt > 0)
  BY <1>1 DEF Progress, Served, End
<1>2. CASE transmit_Handler \/ receive_Handler
  BY <1>1, <1>2 DEF transmit_Handler, receive_Handler, Typed
<1>3. CASE BusReset
  BY <1>1, <1>3 DEF BusReset
<1>4. CASE SetAddress \/ SetConfiguration \/ SetControlLineState \/ SwitchOff \/ SwitchOn
  BY <1>1, <1>4 DEF SetAddress, SetConfiguration, SetControlLineState, SwitchOff,
     SwitchOn, Control
<1>5. CASE HostIn
  BY <1>1, <1>5 DEF HostIn
<1>6. ASSUME NEW r \in plan.requests, HostOut(r)
      PROVE  Progress'
  <2>1. requests' = Append(requests, r) /\ rxBuf' = Len(requests) + 1
    BY <1>6 DEF HostOut
  <2>2. packet # 0 => requests'[packet] = requests[packet]
    BY <2>1, AppendProperties DEF Typed
  <2>3. packet # 0 => \E d \in 0 .. Len(requests'[packet']) : Served(d)'
    BY <1>6, <2>2 DEF HostOut, Progress, Served, End
  <2>. QED BY <1>6, <2>1, <2>3 DEF HostOut, Progress, Typed
<1>. QED
  BY <1>2, <1>3, <1>4, <1>5, <1>6 DEF Next

LEMMA ProgressMain ==
  ASSUME Typed, Progress, Main
  PROVE  Progress'
<1>. USE DEF shared, sending, serving, ep2, ep3, pcside, InSend, Loading
<1>1. UNCHANGED <<requests, rxBuf>>
  BY DEF Main, connect, rearm, clear, EP_Write_write, usb_proc, EP_Init2, EP_Init3,
     usb_recv, EP_Read, serve, usb_send, RB_write, EP_WriteIRQ, EP_Write_read
\* Steps that leave the progress alone.
<1>2. ASSUME UNCHANGED serving,
             size # 0 => InSend',
             todo # <<>> => pc' \in {"rearm", "clear", "serve"} \/ InSend',
             rxCtr' \/ rx_cnt' > 0 => rxCtr \/ rx_cnt > 0
      PROVE  Progress'
  BY <1>1, <1>2 DEF Progress, Served, End
<1>3. CASE connect
  BY <1>2, <1>3 DEF connect, Progress
<1>4. CASE rearm
  BY <1>2, <1>4 DEF rearm, Progress
<1>5. CASE clear
  BY <1>2, <1>5 DEF clear, Progress
<1>6. CASE EP_Write_write
  BY <1>2, <1>6 DEF EP_Write_write, Progress, Typed
<1>7. CASE usb_proc
  BY <1>2, <1>7 DEF usb_proc, send_next, Progress
<1>8. CASE EP_Init2
  BY <1>2, <1>8 DEF EP_Init2, Progress
<1>9. CASE EP_Init3
  BY <1>2, <1>9 DEF EP_Init3, Progress
<1>10. CASE usb_recv
  BY <1>2, <1>10 DEF usb_recv, Progress
<1>11. CASE EP_Read
  <2>1. size = 0 /\ size' = 0 /\ todo = <<>> /\ pc' = "rearm" /\ rx_cnt' = 0
        /\ UNCHANGED rxCtr
    BY <1>11 DEF EP_Read, Progress
  <2>2. CASE rx_cnt > 0
    <3>1. packet' = rxBuf /\ todo' = requests[rxBuf] /\ sent' = 0 /\ rxBuf # 0
      BY <1>11, <2>2 DEF EP_Read, Progress, Typed
    <3>2. rxBuf \in 1 .. Len(requests)
      BY <3>1 DEF Typed
    <3>3. requests[rxBuf] \in Seq(Lengths)
      BY <3>2, RequestFacts
    <3>4. 0 \in 0 .. Len(requests'[packet']) /\ Served(0)'
      BY <1>1, <2>1, <3>1, <3>3 DEF Served, End
    <3>. QED BY <1>1, <2>1, <3>1, <3>4 DEF Progress
  <2>3. CASE rx_cnt = 0
    <3>1. UNCHANGED serving
      BY <1>11, <2>1, <2>3 DEF EP_Read
    <3>. QED BY <1>2, <2>1, <2>3, <3>1 DEF Progress
  <2>. QED BY <2>2, <2>3 DEF Typed
<1>12. CASE serve
  <2>1. size = 0 /\ UNCHANGED <<packet, rxCtr, rx_cnt>>
    BY <1>12 DEF serve, Progress
  <2>2. CASE todo = <<>>
    BY <1>2, <1>12, <2>1, <2>2 DEF serve
  <2>3. CASE todo # <<>>
    <3>1. /\ todo' = Tail(todo) /\ sent' + size' = Head(todo)
          /\ size' # 0 => InSend'
          /\ pc' = "serve" \/ InSend'
      <4>1. Head(todo) \in Nat
        BY <2>3, ProgressFacts
      <4>2. CASE usbON
        BY <1>12, <2>3, <4>1, <4>2 DEF serve, Typed
      <4>3. CASE ~usbON
        BY <1>12, <2>1, <2>3, <4>1, <4>3 DEF serve, Typed
      <4>. QED BY <4>2, <4>3
    <3>2. packet # 0 /\ packet \in 1 .. Len(requests)
      BY <2>3 DEF Progress, Typed
    <3>3. requests[packet] \in Seq(Lengths)
      BY <3>2, RequestFacts
    <3>4. PICK d \in 0 .. Len(requests[packet]) : Served(d)
      BY <3>2 DEF Progress
    <3>5. /\ Len(todo) \in Nat \ {0} /\ Head(todo) = todo[1]
          /\ Len(Tail(todo)) = Len(todo) - 1
          /\ \A i \in 1 .. Len(Tail(todo)) : Tail(todo)[i] = todo[i + 1]
      BY <2>3, HeadTailProperties DEF Typed
    <3>6. d + 1 \in 0 .. Len(requests[packet]) /\ Served(d + 1)'
      BY <1>1, <2>1, <3>1, <3>3, <3>4, <3>5 DEF Served, End
    <3>. QED BY <1>1, <2>1, <3>1, <3>2, <3>6 DEF Progress
  <2>. QED BY <2>2, <2>3
<1>13. CASE usb_send
  BY <1>2, <1>13 DEF usb_send, send_next, Progress
<1>14. CASE RB_write
  <2>1. PICK n \in 0 .. size : size' = size - n /\ sent' = sent + n
    BY <1>14, WriteStep
  <2>2. sent' + size' = sent + size /\ (packet = 0 => sent' = 0 /\ size' = 0)
    BY <2>1 DEF Progress, Typed
  <2>. QED BY <1>1, <1>14, <2>2 DEF RB_write, Progress, Served, End
<1>15. CASE EP_WriteIRQ
  BY <1>2, <1>15 DEF EP_WriteIRQ, Progress
<1>16. CASE EP_Write_read
  BY <1>2, <1>16 DEF EP_Write_read, Progress
<1>. QED
  BY <1>3, <1>4, <1>5, <1>6, <1>7, <1>8, <1>9, <1>10, <1>11, <1>12, <1>13, <1>14,
     <1>15, <1>16 DEF Main

LEMMA TypesStep == Types /\ [Next]_vars => Types'
<1>. SUFFICES ASSUME Typed, Progress, [Next]_vars PROVE Types'
  BY DEF Types
<1>1. CASE Main
  BY <1>1, TypedMain, ProgressMain DEF Types
<1>2. CASE Next /\ ~Main
  BY <1>2, TypedOther, ProgressOther DEF Types
<1>3. CASE UNCHANGED vars
  <2>. USE DEF vars, shared, sending, serving, ep2, ep3, pcside
  <2>1. Typed'
    BY <1>3 DEF Typed
  <2>2. Progress'
    BY <1>3 DEF Progress, Served, End, InSend, Loading
  <2>. QED BY <2>1, <2>2 DEF Types
<1>. QED BY <1>1, <1>2, <1>3

\* Every variable keeps its type; the transmit buffer, the packet to send and
\* the packet memory their capacity; and a packet number is one that was sent.
THEOREM UsbTypes == Spec => []TypeOK
<1>1. Types => TypeOK
  <2>. SUFFICES ASSUME Typed PROVE TypeOK
    BY DEF Types
  <2>1. {usbON, tx_succesfull, rxNE, rxCtr, txCtr} \subseteq BOOLEAN
    BY Zenon DEF Typed
  <2>2. Len(queue) \in 0 .. Capacity /\ {Len(usbbuff), Len(txBuf), lastdsz} \subseteq 0 .. Block
    BY UsbAssumption DEF Typed
  <2>. QED BY <2>1, <2>2 DEF Typed, TypeOK
<1>. QED BY TypesInit, TypesStep, <1>1, PTL DEF Spec

---------------------------------------------------------------------------
(* What holds whatever the PC does.                                        *)

LEMMA SessionStep ==
  ASSUME Typed, Session, Next
  PROVE  Session'
<1>. USE DEF shared, sending, serving, ep2, ep3, pcside, Session, Fresh, InSend, Loading, Typed
<1>1. CASE connect
  BY <1>1 DEF connect
<1>2. CASE rearm
  BY <1>2, FlipFacts DEF rearm
<1>3. CASE clear
  BY <1>3 DEF clear
<1>4. CASE EP_Write_write
  BY <1>4 DEF EP_Write_write
<1>5. CASE usb_proc
  BY <1>5 DEF usb_proc, send_next
<1>6. CASE EP_Init2
  BY <1>6, FlipFacts DEF EP_Init2
<1>7. CASE EP_Init3
  BY <1>7 DEF EP_Init3
<1>8. CASE usb_recv
  BY <1>8 DEF usb_recv
<1>9. CASE EP_Read
  BY <1>9 DEF EP_Read
<1>10. CASE serve
  BY <1>10 DEF serve
<1>11. CASE usb_send
  BY <1>11 DEF usb_send, send_next
<1>12. CASE RB_write
  BY <1>12 DEF RB_write
<1>13. CASE EP_WriteIRQ
  BY <1>13 DEF EP_WriteIRQ
<1>14. CASE EP_Write_read
  BY <1>14 DEF EP_Write_read
<1>15. CASE transmit_Handler
  BY <1>15 DEF transmit_Handler
<1>16. CASE receive_Handler
  BY <1>16 DEF receive_Handler
<1>17. CASE BusReset
  BY <1>17, FlipFacts DEF BusReset
<1>18. CASE SetAddress
  BY <1>18 DEF SetAddress, Control, Settled, Spinning
<1>19. CASE SetConfiguration
  BY <1>19 DEF SetConfiguration, Control, Settled, Spinning
<1>20. CASE SetControlLineState
  BY <1>20, FlipFacts DEF SetControlLineState, Control, Settled, Spinning
<1>21. CASE SwitchOff
  BY <1>21 DEF SwitchOff, Control
<1>22. CASE SwitchOn
  BY <1>22 DEF SwitchOn, Control
<1>23. CASE HostIn
  BY <1>23 DEF HostIn
<1>24. ASSUME NEW r \in plan.requests, HostOut(r)
       PROVE  Session'
  BY <1>24, FlipFacts DEF HostOut
<1>. QED
  BY <1>1, <1>2, <1>3, <1>4, <1>5, <1>6, <1>7, <1>8, <1>9, <1>10, <1>11, <1>12, <1>13, <1>14, <1>15, <1>16, <1>17, <1>18, <1>19, <1>20, <1>21, <1>22, <1>23, <1>24 DEF Next, Main

LEMMA ReceptionStep ==
  ASSUME Typed, Session, Reception, Next
  PROVE  Reception'
<1>. USE DEF shared, sending, serving, ep2, ep3, pcside, Reception, Old, Unseen, Typed
<1>1. CASE connect
  BY <1>1 DEF connect
<1>2. CASE rearm
  BY <1>2, FlipFacts DEF rearm
<1>3. CASE clear
  BY <1>3 DEF clear
<1>4. CASE EP_Write_write
  BY <1>4 DEF EP_Write_write
<1>5. CASE usb_proc
  BY <1>5 DEF usb_proc, send_next
<1>6. CASE EP_Init2
  BY <1>6, FlipFacts DEF EP_Init2, Session, Fresh
<1>7. CASE EP_Init3
  BY <1>7 DEF EP_Init3
<1>8. CASE usb_recv
  BY <1>8 DEF usb_recv
<1>9. CASE EP_Read /\ ~Preempted
  BY <1>9, FlipFacts DEF EP_Read, Preempted
<1>10. CASE serve
  BY <1>10 DEF serve
<1>11. CASE usb_send
  BY <1>11 DEF usb_send, send_next
<1>12. CASE RB_write
  BY <1>12 DEF RB_write
<1>13. CASE EP_WriteIRQ
  BY <1>13 DEF EP_WriteIRQ
<1>14. CASE EP_Write_read
  BY <1>14 DEF EP_Write_read
<1>15. CASE transmit_Handler
  BY <1>15 DEF transmit_Handler
<1>16. CASE receive_Handler
  BY <1>16 DEF receive_Handler
<1>17. CASE BusReset
  BY <1>17, FlipFacts DEF BusReset
<1>18. CASE SetAddress
  BY <1>18 DEF SetAddress, Control, Settled, Spinning
<1>19. CASE SetConfiguration
  BY <1>19 DEF SetConfiguration, Control, Settled, Spinning
<1>20. CASE SetControlLineState
  BY <1>20 DEF SetControlLineState, Control, Settled, Spinning
<1>21. CASE SwitchOff
  BY <1>21 DEF SwitchOff, Control
<1>22. CASE SwitchOn
  BY <1>22 DEF SwitchOn, Control
<1>23. CASE HostIn
  BY <1>23 DEF HostIn
<1>24. ASSUME NEW r \in plan.requests, HostOut(r)
       PROVE  Reception'
  BY <1>24, FlipFacts DEF HostOut
<1>. QED
  BY <1>1, <1>2, <1>3, <1>4, <1>5, <1>6, <1>7, <1>8, <1>9, <1>10, <1>11, <1>12, <1>13, <1>14, <1>15, <1>16, <1>17, <1>18, <1>19, <1>20, <1>21, <1>22, <1>23, <1>24 DEF Next, Main

LEMMA RegistersStep ==
  ASSUME Typed, Session, Registers, Next
  PROVE  Registers'
<1>. USE DEF shared, sending, serving, ep2, ep3, pcside, Registers, Session, Typed
<1>1. CASE connect
  BY <1>1, FlipFacts DEF connect
<1>2. CASE rearm
  BY <1>2, FlipFacts DEF rearm
<1>3. CASE clear
  BY <1>3 DEF clear
<1>4. CASE EP_Write_write
  BY <1>4, FlipFacts DEF EP_Write_write
<1>5. CASE usb_proc
  BY <1>5 DEF usb_proc, send_next
<1>6. CASE EP_Init2
  BY <1>6, FlipFacts DEF EP_Init2
<1>7. CASE EP_Init3
  BY <1>7, FlipFacts DEF EP_Init3
<1>8. CASE usb_recv
  BY <1>8 DEF usb_recv
<1>9. CASE EP_Read
  BY <1>9 DEF EP_Read
<1>10. CASE serve
  BY <1>10 DEF serve
<1>11. CASE usb_send
  BY <1>11 DEF usb_send, send_next
<1>12. CASE RB_write
  BY <1>12 DEF RB_write
<1>13. CASE EP_WriteIRQ
  BY <1>13 DEF EP_WriteIRQ
<1>14. CASE EP_Write_read
  BY <1>14 DEF EP_Write_read
<1>15. CASE transmit_Handler
  BY <1>15 DEF transmit_Handler
<1>16. CASE receive_Handler
  BY <1>16 DEF receive_Handler
<1>17. CASE BusReset
  BY <1>17, FlipFacts DEF BusReset
<1>18. CASE SetAddress
  BY <1>18 DEF SetAddress, Control, Settled, Spinning
<1>19. CASE SetConfiguration
  BY <1>19, FlipFacts DEF SetConfiguration, Control, Settled, Spinning
<1>20. CASE SetControlLineState
  BY <1>20, FlipFacts DEF SetControlLineState, Control, Settled, Spinning
<1>21. CASE SwitchOff
  BY <1>21 DEF SwitchOff, Control
<1>22. CASE SwitchOn
  BY <1>22 DEF SwitchOn, Control
<1>23. CASE HostIn
  BY <1>23, FlipFacts DEF HostIn
<1>24. ASSUME NEW r \in plan.requests, HostOut(r)
       PROVE  Registers'
  BY <1>24, FlipFacts DEF HostOut
<1>. QED
  BY <1>1, <1>2, <1>3, <1>4, <1>5, <1>6, <1>7, <1>8, <1>9, <1>10, <1>11, <1>12, <1>13, <1>14, <1>15, <1>16, <1>17, <1>18, <1>19, <1>20, <1>21, <1>22, <1>23, <1>24 DEF Next, Main

LEMMA AnyPlanInit == Init => AnyPlan
  BY TypesInit, FlipFacts DEF Init, AnyPlan, Session, Fresh, InSend, Loading,
     Reception, Old, Unseen, Registers

LEMMA AnyPlanStep == AnyPlan /\ [Next]_vars => AnyPlan'
<1>. SUFFICES ASSUME Types, Session, Reception, Registers, [Next]_vars
              PROVE  AnyPlan'
  BY DEF AnyPlan
<1>1. Typed /\ Types'
  BY TypesStep DEF Types
<1>2. CASE Next
  BY <1>1, <1>2, SessionStep, ReceptionStep, RegistersStep DEF AnyPlan
<1>3. CASE UNCHANGED vars
  BY <1>1, <1>3 DEF AnyPlan, vars, shared, sending, serving, ep2, ep3, pcside,
     Session, Fresh, InSend, Loading, Reception, Old, Unseen, Registers
<1>. QED BY <1>2, <1>3

LEMMA AnyPlanInv == Spec => []AnyPlan
  BY AnyPlanInit, AnyPlanStep, PTL DEF Spec

\* When the PC may send and the device says CONNECTED, both bulk endpoints are
\* enabled, whatever resets, suspends and overlapping requests came before.
THEOREM ConnectedIsReady == Spec => []EndpointsReady
<1>1. AnyPlan => EndpointsReady
  BY DEF AnyPlan, Registers, EndpointsReady
<1>. QED BY AnyPlanInv, <1>1, PTL

\* EP2 never takes a packet over one that usb_recv has not read, unless it is
\* of a session that a bus reset has ended.
THEOREM RequestsKept == Spec => RxBufferKept
<1>1. AnyPlan /\ [Next]_vars => [rxBuf' # rxBuf => rxBuf = packet \/ rxBuf <= session]_vars
  <2>. SUFFICES ASSUME AnyPlan, Next, rxBuf' # rxBuf
                PROVE  rxBuf = packet \/ rxBuf <= session
    OBVIOUS
  <2>1. ~Main
    BY DEF shared, sending, serving, ep2, ep3, pcside, Main, connect, rearm, clear,
       EP_Write_write, usb_proc, EP_Init2, EP_Init3, usb_recv, EP_Read, serve,
       usb_send, RB_write, EP_WriteIRQ, EP_Write_read
  <2>2. \E r \in plan.requests : HostOut(r)
    BY <2>1 DEF Next, shared, ep2, ep3, pcside, transmit_Handler, receive_Handler,
       BusReset, SetAddress, SetConfiguration, SetControlLineState, SwitchOff,
       SwitchOn, Control, HostIn
  <2>. QED BY <2>2 DEF HostOut, AnyPlan, Reception, Old
<1>. QED BY AnyPlanInv, <1>1, PTL DEF Spec, RxBufferKept

---------------------------------------------------------------------------
(* The orderly PC: send_next.                                              *)

\* Between two calls of usb_send the answer stands at the end of a call.
LEMMA WholeFacts ==
  ASSUME Typed, Progress, packet # 0, size = 0
  PROVE  Whole
<1>1. PICK d \in 0 .. Len(requests[packet]) : Served(d)
  BY DEF Progress
<1>. QED BY <1>1 DEF Served, Whole, Typed

LEMMA Multiples ==
  ASSUME NEW b \in Nat \ {0}, NEW m \in Nat
  PROVE  (m * b + b) % b = 0
  BY SMT

\* No two ends of usb_send calls of an orderly PC are full packets apart.
LEMMA NeverFull ==
  ASSUME Typed, Orderly, packet # 0, Cut(Handed), Whole
  PROVE  sent # Handed + Block
<1>. DEFINE a == requests[packet]
<1>1. packet \in 1 .. Len(requests)
  BY DEF Typed
<1>2. a \in plan.requests /\ a \in Seq(Lengths) /\ Ascending(a)
  <2>1. a \in plan.requests
    BY <1>1 DEF Typed
  <2>2. a \in Seq(Lengths) /\ Ascending(a)
    BY <1>1, RequestFacts
  <2>. QED BY <2>1, <2>2
<1>3. PICK i \in 0 .. Len(a), m \in 0 .. Handed : Handed = End(a, i) + m * Block
  BY DEF Cut
<1>4. PICK k \in 0 .. Len(a) : sent = End(a, k)
  BY DEF Whole
<1>5. /\ Block \in Nat \ {0} /\ m \in Nat
      /\ End(a, i) \in Nat /\ End(a, k) \in Nat
  <2>1. End(a, i) \in Nat /\ End(a, k) \in Nat
    BY <1>1, RequestFacts
  <2>2. Handed \in Int
    BY DEF Handed, Typed
  <2>. QED BY <2>1, <2>2, UsbAssumption
<1>6. ASSUME sent = Handed + Block PROVE FALSE
  <2>1. End(a, k) - End(a, i) = m * Block + Block
    BY <1>3, <1>4, <1>5, <1>6
  <2>2. m * Block \in Nat
    BY <1>5
  <2>3. End(a, i) < End(a, k)
    BY <1>5, <2>1, <2>2
  <2>4. i < k
    BY <1>2, <1>3, <1>4, <2>3 DEF End, Ascending, Lengths
  <2>5. (End(a, k) - End(a, i)) % Block = 0
    BY <1>5, <2>1, Multiples
  <2>. QED BY <1>2, <1>3, <1>4, <2>4, <2>5 DEF Orderly
<1>. QED BY <1>6

NothingTaken ==
  /\ UNCHANGED <<queue, tx_succesfull>>
  /\ pc' \in {"recv", "serve", "write"}
  /\ tx_succesfull \/ UNCHANGED <<usbbuff, lastdsz>>
  /\ lastdsz' = 0 \/ lastdsz' = lastdsz

PacketTaken ==
  /\ tx_succesfull /\ ~tx_succesfull' /\ pc' = "copy"
  /\ Len(usbbuff') \in 1 .. Len(queue)
  /\ Len(queue') = Len(queue) - Len(usbbuff')
  /\ \A i \in 1 .. Len(usbbuff') : usbbuff'[i] = queue[i]
  /\ \A i \in 1 .. Len(queue') : queue'[i] = queue[Len(usbbuff') + i]
  /\ lastdsz' = Len(usbbuff')
  /\ Len(usbbuff') = Block \/ (queue' = <<>> /\ Whole)
  /\ Len(usbbuff') = Block /\ queue' = <<>> => ret' = "write" /\ size > 0

\* What a call of send_next, from usb_proc or from the loop of usb_send, does
\* when the device is open: it takes a packet, or there is nothing to take.
LEMMA SendNextFacts ==
  ASSUME Typed, Progress, Orderly, Open, NEW caller, send_next(caller),
         tx_succesfull,
         \/ pc = "proc" /\ caller = "recv"
         \/ pc = "send" /\ caller = "write" /\ size > 0
  PROVE  NothingTaken \/ PacketTaken
<1>. USE DEF NothingTaken, PacketTaken
<1>1. CASE queue = <<>>
  <2>1. lastdsz # Block
    BY <1>1 DEF Open, Packets, InSend, Loading
  <2>. QED BY <1>1, <2>1, UsbAssumption DEF send_next
<1>2. CASE queue # <<>>
  <2>1. /\ usbbuff' = Fifo!Portion(queue) /\ queue' = Fifo!Remainder(queue)
        /\ lastdsz' = Len(usbbuff') /\ tx_succesfull' = FALSE /\ pc' = "copy"
        /\ ret' = caller
    BY <1>2 DEF send_next
  <2>2. /\ queue \in Seq(Bytes) /\ Len(queue) \in Nat \ {0} /\ Block \in Nat \ {0}
        /\ Capacity \in Nat /\ Block <= Capacity
    BY <1>2, UsbAssumption DEF Typed
  <2>3. /\ Len(usbbuff') = IF Len(queue) <= Block THEN Len(queue) ELSE Block
        /\ Len(queue') = Len(queue) - Len(usbbuff')
        /\ \A i \in 1 .. Len(usbbuff') : usbbuff'[i] = queue[i]
        /\ \A i \in 1 .. Len(queue') : queue'[i] = queue[Len(usbbuff') + i]
    BY <2>1, <2>2, ReadFacts DEF Fifo!Lesser
  <2>4. packet # 0
    <3>1. Len(queue) <= sent
      BY DEF Open, Contents
    <3>. QED BY <2>2, <3>1 DEF Progress
  <2>5. Whole \/ Len(queue) = Capacity
    <3>1. CASE pc = "proc"
      BY <2>4, <3>1, WholeFacts DEF Progress, InSend, Loading
    <3>2. CASE pc = "send"
      BY <2>4, <3>2 DEF Open, Packets
    <3>. QED BY <3>1, <3>2
  <2>6. queue' = <<>> <=> Len(queue') = 0
    <3>1. queue' \in Seq(Bytes)
      BY <2>1, <2>2, ReadFacts
    <3>. QED BY <3>1
  <2>7. ASSUME Len(queue) = Block PROVE caller = "write"
    <3>1. CASE pc = "proc"
      <4>1. Whole
        BY <2>4, <3>1, WholeFacts DEF Progress, InSend, Loading
      <4>2. sent = Handed + Block
        BY <2>2, <2>7 DEF Handed, Typed
      <4>. QED BY <2>4, <4>1, <4>2, NeverFull DEF Open, Packets
    <3>2. CASE pc = "send"
      BY <3>2
    <3>. QED BY <3>1, <3>2
  <2>8. Len(usbbuff') \in 1 .. Len(queue)
    BY <2>2, <2>3
  <2>9. Len(usbbuff') = Block \/ (queue' = <<>> /\ Whole)
    <3>1. CASE Len(queue) < Block
      BY <2>2, <2>3, <2>5, <2>6, <3>1
    <3>2. CASE ~(Len(queue) < Block)
      BY <2>2, <2>3, <3>2
    <3>. QED BY <3>1, <3>2
  <2>10. Len(usbbuff') = Block /\ queue' = <<>> => caller = "write"
    BY <2>2, <2>3, <2>6, <2>7
  <2>. QED BY <2>1, <2>3, <2>8, <2>9, <2>10
<1>. QED BY <1>1, <1>2

---------------------------------------------------------------------------
(* The orderly PC: the steps of an open device.                            *)

\* What can still happen: the steps of the main loop but the enumeration, the
\* handlers of EP2 and EP3, and the transfers.
Active ==
  \/ rearm \/ clear \/ EP_Write_write
  \/ ~Preempted /\ \/ usb_proc \/ usb_recv \/ EP_Read \/ serve
                   \/ usb_send \/ RB_write \/ EP_WriteIRQ \/ EP_Write_read
  \/ transmit_Handler \/ receive_Handler \/ HostIn
  \/ \E r \in plan.requests : HostOut(r)

LEMMA OpenActive ==
  ASSUME Types, Orderly, host = "open", Open, Next
  PROVE  Active /\ host' = "open"
<1>. USE DEF shared, sending, serving, ep2, ep3, pcside, Types, Typed
<1>1. ~connect /\ ~EP_Init2 /\ ~EP_Init3
  BY DEF Open, Connected, connect, EP_Init2, EP_Init3
<1>2. ~BusReset /\ ~SwitchOff
  BY DEF Orderly, BusReset, SwitchOff
<1>3. ~SetAddress /\ ~SetConfiguration /\ ~SetControlLineState /\ ~SwitchOn
  BY DEF Open, Connected, SetAddress, SetConfiguration, SetControlLineState,
     SwitchOn, Control
<1>4. Active
  BY <1>1, <1>2, <1>3 DEF Next, Main, Active
<1>. QED
  BY <1>4 DEF Active, rearm, clear, EP_Write_write, usb_proc, usb_recv, EP_Read,
     serve, usb_send, RB_write, EP_WriteIRQ, EP_Write_read, transmit_Handler,
     receive_Handler, HostIn, HostOut

\* An orderly PC that sends a request has the whole answer to the last one, so
\* nothing is left of it in the device.
Complete ==
  /\ packet = rxBuf /\ todo = <<>> /\ size = 0 /\ queue = <<>> /\ ~Flying
  /\ packet # 0 => sent > 0 /\ sent = Total(requests[packet])
  /\ Idle

LEMMA SentWhenAnswered ==
  ASSUME Types, Orderly, host = "open", Open, NEW r, HostOut(r)
  PROVE  Complete
<1>. USE DEF Types, Complete
<1>1. packet = rxBuf /\ packet = Len(requests) /\ (Idle \/ Armed)
  BY FlipFacts DEF HostOut, Open, Stage, Awaited, Idle, Raised, Noted, Taken, Armed
<1>2. CASE packet = 0
  <2>1. todo = <<>> /\ sent = 0 /\ size = 0
    BY <1>2 DEF Progress
  <2>2. queue = <<>> /\ Handed = 0
    BY <2>1 DEF Open, Contents, Handed, Typed
  <2>3. ~Flying
    BY <2>2 DEF Open, Contents, Typed
  <2>. QED BY <1>1, <1>2, <2>1, <2>2, <2>3 DEF Armed
<1>3. CASE packet # 0
  <2>1. Answered(packet)
    <3>1. session = 0 /\ packet \in session + 1 .. Len(requests)
      BY <1>1, <1>3 DEF Open, Connected, Typed
    <3>2. IsFiniteSet(Outstanding)
      <4>1. IsFiniteSet(session + 1 .. Len(requests))
        BY FS_Interval DEF Typed
      <4>. QED BY <4>1, FS_Subset DEF Outstanding
    <3>3. Cardinality(Outstanding) < 1
      BY DEF HostOut, Orderly
    <3>4. Outstanding = {}
      BY <3>2, <3>3, FS_EmptySet, FS_CardinalityType
    <3>. QED BY <3>1, <3>4 DEF Outstanding
  <2>2. PICK i \in 1 .. Len(received) : received[i] = <<packet, Total(requests[packet])>>
    <3>1. received \in Seq(Bytes)
      BY DEF Typed
    <3>. QED BY <2>1, <3>1 DEF Answered, ToSet
  <2>3. Total(requests[packet]) \in 1 .. Got
    <3>1. packet \in 1 .. Len(requests)
      BY <1>3 DEF Typed
    <3>2. Total(requests[packet]) \in Nat
      BY <3>1, RequestFacts
    <3>3. received[i][1] = packet /\ received[i][2] = Total(requests[packet])
      BY <2>2
    <3>4. received[i][2] \in 1 .. Total(requests[packet]) /\ received[i][2] <= Got
      BY <3>3 DEF Open, Arrival
    <3>. QED BY <3>2, <3>3, <3>4 DEF Got, Handed, Typed
  <2>4. /\ Got \in Int /\ Got <= Handed /\ (Flying => Got < Handed)
        /\ Handed = sent - Len(queue)
    BY DEF Open, Contents, Got, Handed, Typed
  <2>5. sent + size <= Total(requests[packet])
    BY <1>3, ProgressFacts
  <2>6. size = 0 /\ sent = Total(requests[packet]) /\ Len(queue) = 0 /\ ~Flying /\ sent > 0
    BY <2>3, <2>4, <2>5 DEF Typed
  <2>7. todo = <<>>
    <3>1. sent \in Nat /\ size \in Nat
      BY DEF Typed
    <3>. QED BY <2>6, <3>1, ProgressFacts
  <2>. QED BY <1>1, <1>3, <2>6, <2>7 DEF Armed, Typed
<1>. QED BY <1>2, <1>3

\* usb_proc and the test at the head of the loop of usb_send: a packet is
\* taken from the buffer, or nothing is.
SendFrame ==
  /\ UNCHANGED <<status, usbON, rxNE, rx_cnt, serving, ep2, ep3, pcside, eptmp>>
  /\ pc \in {"proc", "send"} /\ (pc' = "write" => size > 0)

LEMMA SendStep ==
  ASSUME Types, Orderly, Open, usb_proc \/ usb_send
  PROVE  SendFrame /\ (NothingTaken \/ PacketTaken)
<1>. USE DEF shared, sending, serving, ep2, ep3, pcside, SendFrame
<1>1. CASE usb_proc
  <2>1. pc = "proc" /\ status = "CONNECTED" /\ usbON
    BY <1>1 DEF usb_proc, Open, Connected
  <2>2. CASE tx_succesfull
    <3>1. send_next("recv") /\ UNCHANGED <<status, usbON, rxNE, rx_cnt>>
      BY <1>1, <2>1, <2>2 DEF usb_proc
    <3>2. ret' = "recv" /\ UNCHANGED eptmp /\ pc' # "write"
      BY <3>1 DEF send_next
    <3>3. UNCHANGED <<serving, ep2, ep3, pcside>>
      BY <1>1 DEF usb_proc
    <3>4. NothingTaken \/ PacketTaken
      BY <2>1, <2>2, <3>1, SendNextFacts DEF Types
    <3>. QED BY <2>1, <3>1, <3>2, <3>3, <3>4
  <2>3. CASE ~tx_succesfull
    BY <1>1, <2>1, <2>3 DEF usb_proc, NothingTaken
  <2>. QED BY <2>2, <2>3
<1>2. CASE usb_send
  <2>1. pc = "send" /\ UNCHANGED <<status, usbON, rxNE, rx_cnt, serving, ep2, ep3, pcside>>
    BY <1>2 DEF usb_send
  <2>2. CASE size > 0 /\ tx_succesfull /\ send_next("write")
    <3>1. ret' = "write" /\ UNCHANGED eptmp
      BY <2>2 DEF send_next
    <3>. QED BY <2>1, <2>2, <3>1, SendNextFacts DEF Types
  <2>3. CASE UNCHANGED <<tx_succesfull, sending>> /\ (pc' = "serve" \/ (pc' = "write" /\ size > 0))
    BY <2>1, <2>3 DEF NothingTaken
  <2>. QED BY <1>2, <2>2, <2>3 DEF usb_send
<1>. QED BY <1>1, <1>2

LEMMA ConnectedStep ==
  ASSUME Types, Orderly, host = "open", Open, Active
  PROVE  Connected'
<1>. USE DEF shared, sending, serving, ep2, ep3, pcside, Open, Connected, Types, Typed
<1>1. CASE rearm
  BY <1>1 DEF rearm
<1>2. CASE clear
  BY <1>2 DEF clear
<1>3. CASE EP_Write_write
  BY <1>3, FlipFacts DEF EP_Write_write, Transmission
<1>4. CASE usb_proc
  BY <1>4, FlipFacts DEF usb_proc, send_next
<1>5. CASE usb_recv
  BY <1>5 DEF usb_recv
<1>6. CASE EP_Read
  BY <1>6 DEF EP_Read
<1>7. CASE serve
  BY <1>7 DEF serve
<1>8. CASE usb_send
  BY <1>8, FlipFacts DEF usb_send, send_next
<1>9. CASE RB_write
  BY <1>9 DEF RB_write
<1>10. CASE EP_WriteIRQ
  BY <1>10 DEF EP_WriteIRQ
<1>11. CASE EP_Write_read
  BY <1>11 DEF EP_Write_read
<1>12. CASE transmit_Handler
  BY <1>12 DEF transmit_Handler
<1>13. CASE receive_Handler
  BY <1>13 DEF receive_Handler
<1>14. CASE HostIn
  BY <1>14 DEF HostIn
<1>15. ASSUME NEW r \in plan.requests, HostOut(r)
       PROVE  Connected'
  BY <1>15 DEF HostOut
<1>. QED
  BY <1>1, <1>2, <1>3, <1>4, <1>5, <1>6, <1>7, <1>8, <1>9, <1>10, <1>11, <1>12, <1>13, <1>14, <1>15 DEF Active

LEMMA StageStep ==
  ASSUME Types, Orderly, host = "open", Open, Active
  PROVE  Stage'
<1>0. \A r : HostOut(r) => Complete
  BY SentWhenAnswered
<1>. USE DEF shared, sending, serving, ep2, ep3, pcside, Open, Stage, Idle, Raised, Noted, Taken, Armed, Types, Typed
<1>1. CASE rearm
  BY <1>1, FlipFacts DEF rearm
<1>2. CASE clear
  BY <1>2 DEF clear
<1>3. CASE EP_Write_write
  BY <1>3 DEF EP_Write_write
<1>4. CASE usb_proc
  BY <1>4, FlipFacts DEF usb_proc, send_next
<1>5. CASE usb_recv
  BY <1>5 DEF usb_recv
<1>6. CASE EP_Read
  BY <1>6, FlipFacts DEF EP_Read, Awaited
<1>7. CASE serve
  BY <1>7 DEF serve
<1>8. CASE usb_send
  BY <1>8, FlipFacts DEF usb_send, send_next
<1>9. CASE RB_write
  BY <1>9 DEF RB_write
<1>10. CASE EP_WriteIRQ
  BY <1>10 DEF EP_WriteIRQ
<1>11. CASE EP_Write_read
  BY <1>11 DEF EP_Write_read
<1>12. CASE transmit_Handler
  BY <1>12 DEF transmit_Handler
<1>13. CASE receive_Handler
  BY <1>13 DEF receive_Handler
<1>14. CASE HostIn
  BY <1>14 DEF HostIn
<1>15. ASSUME NEW r \in plan.requests, HostOut(r)
       PROVE  Stage'
  BY <1>0, <1>15 DEF HostOut, Awaited, Complete
<1>. QED
  BY <1>1, <1>2, <1>3, <1>4, <1>5, <1>6, <1>7, <1>8, <1>9, <1>10, <1>11, <1>12, <1>13, <1>14, <1>15 DEF Active

LEMMA TransmissionStep ==
  ASSUME Types, Orderly, host = "open", Open, Active
  PROVE  Transmission'
<1>0. usb_proc \/ usb_send => SendFrame /\ (NothingTaken \/ PacketTaken)
  BY SendStep
<1>. USE DEF shared, sending, serving, ep2, ep3, pcside, Open, Transmission, Flying, Loading, Types, Typed
<1>1. CASE rearm
  BY <1>1 DEF rearm
<1>2. CASE clear
  BY <1>2 DEF clear
<1>3. CASE EP_Write_write
  BY <1>3, FlipFacts DEF EP_Write_write
<1>4. CASE usb_proc
  BY <1>0, <1>4 DEF SendFrame, NothingTaken, PacketTaken
<1>5. CASE usb_recv
  BY <1>5 DEF usb_recv
<1>6. CASE EP_Read
  BY <1>6 DEF EP_Read
<1>7. CASE serve
  BY <1>7 DEF serve
<1>8. CASE usb_send
  BY <1>0, <1>8 DEF SendFrame, NothingTaken, PacketTaken
<1>9. CASE RB_write
  BY <1>9 DEF RB_write
<1>10. CASE EP_WriteIRQ
  BY <1>10 DEF EP_WriteIRQ
<1>11. CASE EP_Write_read
  BY <1>11 DEF EP_Write_read
<1>12. CASE transmit_Handler
  BY <1>12 DEF transmit_Handler
<1>13. CASE receive_Handler
  BY <1>13 DEF receive_Handler
<1>14. CASE HostIn
  BY <1>14, FlipFacts DEF HostIn
<1>15. ASSUME NEW r \in plan.requests, HostOut(r)
       PROVE  Transmission'
  BY <1>15 DEF HostOut
<1>. QED
  BY <1>1, <1>2, <1>3, <1>4, <1>5, <1>6, <1>7, <1>8, <1>9, <1>10, <1>11, <1>12, <1>13, <1>14, <1>15 DEF Active

LEMMA AwaitedStep ==
  ASSUME Types, Orderly, host = "open", Open, Active
  PROVE  Awaited'
<1>1. Typed /\ Progress /\ Stage /\ Awaited /\ Transmission
  BY DEF Types, Open
<1>2. \A r : HostOut(r) => Complete
  BY SentWhenAnswered
<1>3. usb_proc \/ usb_send => SendFrame /\ (NothingTaken \/ PacketTaken)
  BY SendStep
<1>. USE DEF shared, sending, serving, ep2, ep3, pcside, Awaited, Flying
\* Steps that disturb nothing the awaited answer is about.
<1>4. ASSUME UNCHANGED <<rxBuf, requests, packet, todo, size, queue, sent>>,
             Flying' => Flying
      PROVE  Awaited'
  BY <1>1, <1>4
<1>5. CASE rearm \/ clear
  BY <1>4, <1>5 DEF rearm, clear
<1>6. CASE EP_Write_write
  BY <1>1, <1>4, <1>6 DEF EP_Write_write, Transmission, Loading
<1>7. CASE usb_proc \/ usb_send
  <2>1. CASE NothingTaken
    BY <1>3, <1>4, <1>7, <2>1 DEF SendFrame, NothingTaken
  <2>2. CASE PacketTaken
    <3>1. queue # <<>>
      BY <2>2 DEF PacketTaken
    <3>. QED BY <1>1, <1>3, <1>7, <3>1 DEF SendFrame
  <2>. QED BY <1>3, <1>7, <2>1, <2>2
<1>8. CASE usb_recv \/ EP_WriteIRQ \/ EP_Write_read
  BY <1>4, <1>8 DEF usb_recv, EP_WriteIRQ, EP_Write_read
<1>9. CASE EP_Read
  BY <1>1, <1>9 DEF EP_Read, Stage, Idle, Raised, Noted, Taken, Armed
<1>10. CASE serve
  BY <1>1, <1>10 DEF serve
<1>11. CASE RB_write
  <2>1. PICK n \in 0 .. size :
          /\ queue' \in Seq(Bytes) /\ Len(queue') = Len(queue) + n
          /\ size' = size - n /\ sent' = sent + n
    BY <1>1, <1>11, WriteStep
  <2>2. ASSUME packet # rxBuf
        PROVE  queue' = <<>> /\ size' = 0 /\ sent' = sent
    BY <1>1, <2>1, <2>2 DEF Typed
  <2>. QED BY <1>1, <1>11, <2>2 DEF RB_write
<1>12. CASE transmit_Handler \/ receive_Handler \/ HostIn
  BY <1>4, <1>12 DEF transmit_Handler, receive_Handler, HostIn
<1>13. ASSUME NEW r \in plan.requests, HostOut(r)
       PROVE  Awaited'
  <2>1. /\ Len(requests') = Len(requests) + 1
        /\ packet # 0 => requests'[packet] = requests[packet]
    BY <1>1, <1>13, AppendProperties DEF HostOut, Typed
  <2>. QED BY <1>1, <1>2, <1>13, <2>1 DEF HostOut, Complete
<1>. QED
  BY <1>5, <1>6, <1>7, <1>8, <1>9, <1>10, <1>11, <1>12, <1>13 DEF Active

LEMMA ContentsStep ==
  ASSUME Types, Orderly, host = "open", Open, Active
  PROVE  Contents'
<1>1. Typed /\ Progress /\ Stage /\ Awaited /\ Transmission /\ Contents
  BY DEF Types, Open
<1>3. usb_proc \/ usb_send => SendFrame /\ (NothingTaken \/ PacketTaken)
  BY SendStep
<1>. USE DEF shared, sending, serving, ep2, ep3, pcside, Flying, Handed, Got
\* Steps that move no byte into or out of the buffer.
<1>4. ASSUME UNCHANGED <<packet, queue, sent>>, Flying' => Flying /\ UNCHANGED usbbuff
      PROVE  Contents'
  BY <1>1, <1>4 DEF Contents
<1>5. CASE rearm \/ clear
  BY <1>4, <1>5 DEF rearm, clear
<1>6. CASE EP_Write_write
  BY <1>1, <1>4, <1>6 DEF EP_Write_write, Transmission, Loading
<1>7. CASE usb_proc \/ usb_send
  <2>1. CASE NothingTaken
    BY <1>3, <1>4, <1>7, <2>1 DEF SendFrame, NothingTaken
  <2>2. CASE PacketTaken
    <3>1. /\ UNCHANGED <<packet, sent>> /\ Len(usbbuff') \in 1 .. Len(queue)
          /\ Len(queue') = Len(queue) - Len(usbbuff')
          /\ \A i \in 1 .. Len(usbbuff') : usbbuff'[i] = queue[i]
          /\ \A i \in 1 .. Len(queue') : queue'[i] = queue[Len(usbbuff') + i]
      BY <1>3, <1>7, <2>2 DEF SendFrame, PacketTaken
    <3>2. Flying'
      BY <1>1, <1>3, <1>7, <2>2 DEF SendFrame, PacketTaken, Transmission
    <3>3. sent \in Nat /\ Len(queue) \in Nat /\ Len(queue) <= sent
      BY <1>1 DEF Typed, Contents
    <3>4. \A j \in 1 .. Len(queue) : queue[j] = <<packet, sent - Len(queue) + j>>
      BY <1>1 DEF Contents
    <3>5. Handed' = Handed + Len(usbbuff') /\ Got' = Handed
      BY <3>1, <3>2, <3>3
    <3>6. ASSUME NEW j \in 1 .. Len(queue') PROVE queue'[j] = <<packet', Handed' + j>>
      <4>. DEFINE k == Len(usbbuff') + j
      <4>1. k \in 1 .. Len(queue) /\ queue'[j] = queue[k]
        BY <3>1, <3>3
      <4>2. sent - Len(queue) + k = Handed' + j
        BY <3>1, <3>3
      <4>. QED BY <3>1, <3>4, <4>1, <4>2
    <3>7. \A j \in 1 .. Len(usbbuff') : usbbuff'[j] = <<packet', Got' + j>>
      BY <3>1, <3>3, <3>4, <3>5
    <3>8. usbbuff' # <<>> /\ Len(usbbuff') <= Handed' /\ Len(queue') <= sent'
      BY <3>1, <3>3
    <3>. QED BY <3>6, <3>7, <3>8 DEF Contents
  <2>. QED BY <1>3, <1>7, <2>1, <2>2
<1>8. CASE usb_recv \/ EP_WriteIRQ \/ EP_Write_read
  BY <1>4, <1>8 DEF usb_recv, EP_WriteIRQ, EP_Write_read
<1>9. CASE EP_Read
  <2>1. Noted
    BY <1>1, <1>9 DEF EP_Read, Stage, Idle, Raised, Noted, Taken, Armed
  <2>2. queue = <<>> /\ ~Flying /\ sent' = 0 /\ UNCHANGED <<queue, tx_succesfull, txCtr>>
    BY <1>1, <1>9, <2>1 DEF EP_Read, Noted, Awaited, Typed
  <2>. QED BY <2>2 DEF Contents
<1>10. CASE serve
  BY <1>4, <1>10 DEF serve, Open, Connected
<1>11. CASE RB_write
  <2>1. PICK n \in 0 .. size :
          /\ queue' \in Seq(Bytes) /\ Len(queue') = Len(queue) + n
          /\ \A j \in 1 .. Len(queue) : queue'[j] = queue[j]
          /\ \A j \in 1 .. n : queue'[Len(queue) + j] = <<packet, sent + j>>
          /\ sent' = sent + n
    BY <1>1, <1>11, WriteStep
  <2>2. /\ sent \in Nat /\ Len(queue) \in Nat /\ Len(queue) <= sent /\ n \in Nat
        /\ \A j \in 1 .. Len(queue) : queue[j] = <<packet, sent - Len(queue) + j>>
    BY <1>1 DEF Typed, Contents
  <2>3. UNCHANGED <<packet, usbbuff, tx_succesfull, txCtr>>
    BY <1>11 DEF RB_write
  <2>4. Handed' = Handed /\ Got' = Got /\ Len(queue') <= sent'
    BY <2>1, <2>2, <2>3
  <2>5. ASSUME NEW j \in 1 .. Len(queue') PROVE queue'[j] = <<packet, Handed + j>>
    <3>1. CASE j <= Len(queue)
      BY <2>1, <2>2, <2>5, <3>1
    <3>2. CASE j > Len(queue)
      <4>1. j - Len(queue) \in 1 .. n /\ Len(queue) + (j - Len(queue)) = j
        BY <2>1, <2>2, <2>5, <3>2
      <4>2. queue'[Len(queue) + (j - Len(queue))] = <<packet, sent + (j - Len(queue))>>
        BY <2>1, <4>1
      <4>3. sent + (j - Len(queue)) = Handed + j
        BY <2>2, <4>1
      <4>. QED BY <4>1, <4>2, <4>3
    <3>. QED BY <2>2, <2>5, <3>1, <3>2
  <2>. QED BY <1>1, <2>3, <2>4, <2>5 DEF Contents
<1>12. CASE transmit_Handler \/ receive_Handler \/ HostIn
  BY <1>4, <1>12 DEF transmit_Handler, receive_Handler, HostIn
<1>13. ASSUME NEW r \in plan.requests, HostOut(r)
       PROVE  Contents'
  BY <1>4, <1>13 DEF HostOut
<1>. QED
  BY <1>5, <1>6, <1>7, <1>8, <1>9, <1>10, <1>11, <1>12, <1>13 DEF Active

LEMMA PacketsStep ==
  ASSUME Types, Orderly, host = "open", Open, Active
  PROVE  Packets'
<1>1. Typed /\ Progress /\ Stage /\ Awaited /\ Transmission /\ Contents /\ Packets
  BY DEF Types, Open
<1>3. usb_proc \/ usb_send => SendFrame /\ (NothingTaken \/ PacketTaken)
  BY SendStep
<1>. USE DEF shared, sending, serving, ep2, ep3, pcside, InSend, Loading
<1>0. Block \in Nat \ {0} /\ sent \in Nat /\ Len(queue) \in Nat /\ Handed \in Nat
  BY <1>1, UsbAssumption DEF Typed, Contents, Handed
\* Steps that move no byte and stay in or out of usb_send.
<1>4. ASSUME UNCHANGED <<requests, packet, queue, sent, lastdsz, size>>, pc' # "send",
             InSend /\ pc # "send" => InSend'
      PROVE  Packets'
  BY <1>1, <1>4 DEF Packets, Cut, Whole, Handed, End
<1>5. CASE rearm \/ clear
  BY <1>4, <1>5 DEF rearm, clear
<1>6. CASE EP_Write_write
  BY <1>1, <1>4, <1>6 DEF EP_Write_write, Typed
<1>7. CASE usb_proc \/ usb_send
  <2>1. UNCHANGED <<requests, packet, sent, size>> /\ pc \in {"proc", "send"}
        /\ pc' # "send"
    BY <1>3, <1>7 DEF SendFrame, NothingTaken, PacketTaken
  <2>2. ~(lastdsz = Block /\ queue = <<>>)
    BY <1>1, <2>1 DEF Packets
  <2>3. CASE NothingTaken
    <3>1. UNCHANGED queue /\ (lastdsz' = 0 \/ lastdsz' = lastdsz)
      BY <2>3 DEF NothingTaken
    <3>2. packet' # 0 => Cut(Handed)'
      BY <1>1, <2>1, <3>1 DEF Packets, Cut, Handed, End
    <3>. QED BY <1>0, <2>1, <2>2, <3>1, <3>2 DEF Packets
  <2>4. CASE PacketTaken
    <3>1. /\ Len(usbbuff') \in 1 .. Len(queue)
          /\ Len(queue') = Len(queue) - Len(usbbuff')
          /\ Len(usbbuff') = Block \/ (queue' = <<>> /\ Whole)
          /\ lastdsz' = Block /\ queue' = <<>> => InSend' /\ pc' # "send" /\ size > 0
      BY <2>4 DEF PacketTaken
    <3>2. ASSUME packet # 0, Len(usbbuff') = Block
          PROVE  Cut(Handed)'
      <4>1. PICK i \in 0 .. Len(requests[packet]), m \in 0 .. Handed :
              Handed = End(requests[packet], i) + m * Block
        BY <1>1, <3>2 DEF Packets, Cut
      <4>2. Handed' = Handed + Block
        BY <1>0, <2>1, <3>1, <3>2 DEF Handed
      <4>3. packet \in 1 .. Len(requests)
        BY <1>1, <3>2 DEF Typed
      <4>4. End(requests[packet], i) \in Nat
        BY <1>1, <4>3, RequestFacts
      <4>5. Handed' = End(requests[packet], i) + (m + 1) * Block
        BY <1>0, <4>1, <4>2, <4>4
      <4>6. m + 1 \in 0 .. Handed'
        BY <1>0, <4>2
      <4>. QED BY <2>1, <4>5, <4>6 DEF Cut, End
    <3>3. ASSUME packet # 0, queue' = <<>>, Whole
          PROVE  Cut(Handed)'
      <4>1. PICK i \in 0 .. Len(requests[packet]) : sent = End(requests[packet], i)
        BY <3>3 DEF Whole
      <4>2. Handed' = sent
        BY <1>0, <2>1, <3>3 DEF Handed
      <4>3. Handed' = End(requests[packet], i) + 0 * Block /\ 0 \in 0 .. Handed'
        BY <1>0, <4>1, <4>2
      <4>. QED BY <2>1, <4>1, <4>3 DEF Cut, End
    <3>. QED BY <2>1, <3>1, <3>2, <3>3 DEF Packets
  <2>. QED BY <1>3, <1>7, <2>3, <2>4
<1>8. CASE usb_recv \/ EP_WriteIRQ \/ EP_Write_read
  BY <1>4, <1>8 DEF usb_recv, EP_WriteIRQ, EP_Write_read
<1>9. CASE EP_Read
  <2>1. Noted
    BY <1>1, <1>9 DEF EP_Read, Stage, Idle, Raised, Noted, Taken, Armed
  <2>2. /\ queue = <<>> /\ sent' = 0 /\ UNCHANGED <<queue, lastdsz, requests>>
        /\ pc' = "rearm" /\ pc = "read"
    BY <1>1, <1>9, <2>1 DEF EP_Read, Noted, Awaited, Typed
  <2>3. packet' # 0 => Cut(Handed)'
    <3>1. Handed' = 0
      <4>1. sent' = 0 /\ queue' = <<>>
        BY <2>2
      <4>2. Len(queue') = 0
        BY <4>1
      <4>3. Handed' = sent' - Len(queue')
        BY DEF Handed
      <4>. QED BY <4>1, <4>2, <4>3
    <3>2. ASSUME packet' # 0 PROVE Len(requests'[packet']) \in Nat
      <4>1. packet' = rxBuf /\ rxBuf \in 1 .. Len(requests)
        BY <1>1, <1>9, <2>1, <3>2 DEF EP_Read, Noted, Typed
      <4>2. requests[rxBuf] \in Seq(Lengths)
        BY <1>1, <4>1, RequestFacts
      <4>. QED BY <2>2, <4>1, <4>2
    <3>. QED BY <1>0, <3>1, <3>2 DEF Cut, End
  <2>4. ~(lastdsz = Block /\ queue = <<>>)
    BY <1>1, <2>2 DEF Packets
  <2>. QED BY <2>2, <2>3, <2>4 DEF Packets
<1>10. CASE serve
  <2>1. UNCHANGED <<requests, packet, queue, sent, lastdsz>> /\ pc = "serve" /\ size = 0
    BY <1>1, <1>10 DEF serve, Open, Connected, Progress
  <2>2. packet # 0 => Whole
    BY <1>1, <2>1, WholeFacts
  <2>3. ~(lastdsz = Block /\ queue = <<>>)
    BY <1>1, <2>1 DEF Packets
  <2>4. packet # 0 => Cut(Handed)' /\ Whole'
    BY <1>1, <2>1, <2>2 DEF Packets, Cut, Whole, Handed, End
  <2>. QED BY <2>1, <2>3, <2>4 DEF Packets
<1>11. CASE RB_write
  <2>1. PICK n \in 0 .. size :
          /\ queue' \in Seq(Bytes) /\ Len(queue') = Len(queue) + n
          /\ n = size \/ Len(queue') = Capacity
          /\ size' = size - n /\ sent' = sent + n
    BY <1>1, <1>11, WriteStep
  <2>2. UNCHANGED <<packet, requests, lastdsz>> /\ pc' = "send" /\ pc = "write"
        /\ size \in Nat /\ Capacity \in Nat \ {0}
    BY <1>1, <1>11, UsbAssumption DEF RB_write, Typed
  <2>3. Handed' = Handed
    BY <1>0, <2>1, <2>2 DEF Handed
  <2>4. packet # 0 => Cut(Handed)'
    BY <1>1, <2>2, <2>3 DEF Packets, Cut, End
  <2>5. packet # 0 => size' = 0 \/ Len(queue') = Capacity
    BY <2>1, <2>2
  <2>6. ~(lastdsz' = Block /\ queue' = <<>>)
    <3>1. ASSUME lastdsz' = Block, queue' = <<>> PROVE FALSE
      <4>1. n = 0 /\ queue = <<>>
        BY <1>0, <1>1, <2>1, <3>1 DEF Typed
      <4>2. size > 0
        BY <1>1, <2>2, <3>1, <4>1 DEF Packets
      <4>. QED BY <2>1, <2>2, <3>1, <4>1, <4>2
    <3>. QED BY <3>1
  <2>. QED BY <2>2, <2>4, <2>5, <2>6 DEF Packets
<1>12. CASE transmit_Handler \/ receive_Handler \/ HostIn
  BY <1>1, <1>12 DEF transmit_Handler, receive_Handler, HostIn, Packets, Cut, Whole,
     Handed, End
<1>13. ASSUME NEW r \in plan.requests, HostOut(r)
       PROVE  Packets'
  <2>1. packet # 0 => requests'[packet] = requests[packet]
    BY <1>1, <1>13, AppendProperties DEF HostOut, Typed
  <2>2. UNCHANGED <<packet, queue, sent, lastdsz, size, pc, ret>>
    BY <1>13 DEF HostOut
  <2>. QED BY <1>1, <2>1, <2>2 DEF Packets, Cut, Whole, Handed, End
<1>. QED
  BY <1>5, <1>6, <1>7, <1>8, <1>9, <1>10, <1>11, <1>12, <1>13 DEF Active

\* The packet the PC takes continues what it has received.
LEMMA HostInArrival ==
  ASSUME Types, Orderly, host = "open", Open, HostIn
  PROVE  Arrival'
<1>. DEFINE n == Len(usbbuff)
            l == Len(received)
<1>1. Typed /\ Progress /\ Transmission /\ Contents /\ Arrival
  BY DEF Types, Open
<1>2. Flying /\ txBuf = usbbuff
  BY <1>1, FlipFacts DEF HostIn, Transmission, Flying, Loading
<1>3. /\ usbbuff \in Seq(Bytes) /\ n \in Nat \ {0} /\ received \in Seq(Bytes) /\ l \in Nat
      /\ sent \in Nat /\ Len(queue) \in Nat /\ packet \in Nat /\ size \in Nat
  BY <1>1, <1>2 DEF Typed, Contents
<1>4. /\ Len(queue) <= sent /\ Handed = sent - Len(queue) /\ n <= Handed
      /\ Got = Handed - n
      /\ \A j \in 1 .. n : usbbuff[j] = <<packet, Got + j>>
  BY <1>1, <1>2 DEF Contents, Got, Handed
<1>5. packet # 0 /\ packet \in 1 .. Len(requests)
  BY <1>1, <1>3, <1>4 DEF Progress, Typed
<1>6. Total(requests[packet]) \in Nat /\ Handed <= Total(requests[packet])
  <2>1. Total(requests[packet]) \in Nat
    BY <1>1, <1>5, RequestFacts
  <2>. QED BY <1>1, <1>3, <1>4, <1>5, <2>1, ProgressFacts
<1>7. /\ UNCHANGED <<requests, packet>> /\ Got' = Handed
      /\ received' = received \o usbbuff
  BY <1>2 DEF HostIn, Got, Handed, Flying, shared, sending, serving
<1>8. /\ Len(received') = l + n
      /\ \A i \in 1 .. l : received'[i] = received[i]
      /\ \A j \in 1 .. n : received'[l + j] = <<packet, Got + j>>
  BY <1>3, <1>4, <1>7, ConcatProperties
<1>. HIDE DEF n, l
<1>9. ASSUME NEW i \in 1 .. Len(received')
      PROVE  /\ received'[i] = IF i = 1 THEN <<1, 1>> ELSE Sequel(received'[i - 1])
             /\ received'[i][1] \in 1 .. packet
             /\ received'[i][2] \in 1 .. Total(requests[received'[i][1]])
             /\ received'[i][1] = packet => received'[i][2] <= Handed
  <2>1. CASE i <= l
    <3>1. i \in 1 .. l /\ (i # 1 => i - 1 \in 1 .. l)
      BY <1>3, <2>1
    <3>2. received'[i] = received[i] /\ (i # 1 => received'[i - 1] = received[i - 1])
      BY <1>8, <3>1
    <3>3. /\ received[i] = IF i = 1 THEN <<1, 1>> ELSE Sequel(received[i - 1])
          /\ received[i][1] \in 1 .. packet
          /\ received[i][2] \in 1 .. Total(requests[received[i][1]])
          /\ received[i][1] = packet => received[i][2] <= Got
      BY <1>1, <3>1 DEF Arrival, l
    <3>4. received[i] \in Bytes
      BY <1>3, <3>1 DEF l
    <3>. QED BY <1>3, <1>4, <3>2, <3>3, <3>4 DEF Bytes
  <2>2. CASE i > l
    <3>. DEFINE j == i - l
    <3>1. j \in 1 .. n /\ i = l + j
      BY <1>3, <1>8, <2>2
    <3>. HIDE DEF j
    <3>2. received'[i] = <<packet, Got + j>>
      BY <1>8, <3>1
    <3>3. /\ received'[i][1] = packet /\ received'[i][2] = Got + j
          /\ Got + j \in 1 .. Handed
      BY <1>3, <1>4, <3>1, <3>2
    <3>4. received'[i] = IF i = 1 THEN <<1, 1>> ELSE Sequel(received'[i - 1])
      <4>1. CASE j > 1
        <5>1. j - 1 \in 1 .. n /\ i - 1 = l + (j - 1) /\ i # 1
          BY <1>3, <3>1, <4>1
        <5>2. received'[i - 1] = <<packet, Got + (j - 1)>>
          BY <1>8, <5>1
        <5>3. Got + (j - 1) < Total(requests[packet]) /\ Got + (j - 1) + 1 = Got + j
          BY <1>3, <1>4, <1>6, <3>1, <3>3
        <5>. QED BY <3>2, <5>1, <5>2, <5>3 DEF Sequel
      <4>2. CASE j = 1 /\ l = 0
        <5>1. received = <<>> /\ i = 1
          BY <1>3, <3>1, <4>2 DEF l
        <5>2. Got = 0 /\ packet = 1
          BY <1>1, <1>5, <5>1 DEF Arrival, Typed
        <5>. QED BY <3>2, <4>2, <5>1, <5>2
      <4>3. CASE j = 1 /\ l # 0 /\ Got > 0
        <5>1. i # 1 /\ i - 1 = l /\ l \in 1 .. l /\ received # <<>>
          BY <1>3, <3>1, <4>3 DEF l
        <5>2. received'[l] = <<packet, Got>>
          BY <1>1, <1>8, <4>3, <5>1 DEF Arrival, l
        <5>3. Got < Total(requests[packet])
          BY <1>3, <1>4, <1>6
        <5>4. Sequel(<<packet, Got>>) = <<packet, Got + 1>>
          BY <5>3 DEF Sequel
        <5>. QED BY <3>2, <4>3, <5>1, <5>2, <5>4
      <4>4. CASE j = 1 /\ l # 0 /\ ~(Got > 0)
        <5>1. i # 1 /\ i - 1 = l /\ l \in 1 .. l /\ received # <<>> /\ Got = 0
          <6>1. n <= Handed /\ Got = Handed - n /\ Handed = sent - Len(queue)
            BY <1>4
          <6>2. Got >= 0 /\ Got \in Int
            BY <1>3, <6>1
          <6>3. Got = 0
            BY <6>2, <4>4
          <6>4. i # 1 /\ i - 1 = l /\ l \in 1 .. l
            BY <1>3, <3>1, <4>4
          <6>5. received # <<>>
            BY <4>4 DEF l
          <6>. QED BY <6>3, <6>4, <6>5
        <5>2. received[l] = <<packet - 1, Total(requests[packet - 1])>>
          BY <1>1, <4>4, <5>1 DEF Arrival, l
        <5>3. received[l] \in Bytes /\ received'[l] = received[l]
          BY <1>3, <1>8, <5>1 DEF l
        <5>4. received[l][1] = packet - 1 /\ received[l][2] = Total(requests[received[l][1]])
              /\ received[l][2] \in Nat
          BY <5>2, <5>3 DEF Bytes
        <5>5. ~(received[l][2] < Total(requests[received[l][1]]))
          BY <5>4
        <5>6. Sequel(received[l]) = <<packet - 1 + 1, 1>>
          BY <5>4, <5>5 DEF Sequel
        <5>. QED BY <1>3, <3>2, <4>4, <5>1, <5>3, <5>6
      <4>. QED BY <1>3, <3>1, <4>1, <4>2, <4>3, <4>4
    <3>. QED BY <1>3, <1>4, <1>5, <1>6, <3>3, <3>4
  <2>. QED BY <1>3, <1>8, <2>1, <2>2
<1>10. received' # <<>> /\ Handed > 0
  BY <1>3, <1>4, <1>8 DEF l, n
<1>11. received'[Len(received')] = <<packet, Handed>>
  BY <1>3, <1>4, <1>8 DEF l, n
<1>12. \A b : Sequel(b)' = Sequel(b') /\ Total(requests'[b]) = Total(requests[b])
  BY <1>7 DEF Sequel, Total
<1>. QED BY <1>7, <1>9, <1>10, <1>11 DEF Arrival, Sequel

LEMMA ArrivalStep ==
  ASSUME Types, Orderly, host = "open", Open, Active
  PROVE  Arrival'
<1>1. Typed /\ Progress /\ Stage /\ Awaited /\ Transmission /\ Contents /\ Arrival
  BY DEF Types, Open
<1>3. usb_proc \/ usb_send => SendFrame /\ (NothingTaken \/ PacketTaken)
  BY SendStep
<1>. USE DEF shared, sending, serving, ep2, ep3, pcside
\* Steps that bring nothing to the PC.
<1>4. ASSUME UNCHANGED <<requests, packet, received>>, Got' = Got
      PROVE  Arrival'
  BY <1>1, <1>4 DEF Arrival, Sequel, Total
<1>5. CASE rearm \/ clear \/ usb_recv \/ EP_WriteIRQ \/ EP_Write_read
  BY <1>4, <1>5 DEF rearm, clear, usb_recv, EP_WriteIRQ, EP_Write_read, Got, Flying, Handed
<1>6. CASE EP_Write_write
  BY <1>1, <1>4, <1>6 DEF EP_Write_write, Transmission, Loading, Got, Flying, Handed
<1>7. CASE usb_proc \/ usb_send
  <2>1. CASE NothingTaken
    BY <1>3, <1>4, <1>7, <2>1 DEF SendFrame, NothingTaken, Got, Flying, Handed
  <2>2. CASE PacketTaken
    <3>1. /\ UNCHANGED <<requests, packet, received, sent>> /\ tx_succesfull
          /\ Len(usbbuff') \in 1 .. Len(queue)
          /\ Len(queue') = Len(queue) - Len(usbbuff')
      BY <1>3, <1>7, <2>2 DEF SendFrame, PacketTaken
    <3>2. Flying' /\ ~Flying
      BY <1>1, <1>3, <1>7, <2>2 DEF SendFrame, PacketTaken, Transmission, Flying
    <3>3. sent \in Nat /\ Len(queue) \in Nat
      BY <1>1 DEF Typed
    <3>4. Got' = Got
      BY <3>1, <3>2, <3>3 DEF Got, Handed
    <3>. QED BY <1>4, <3>1, <3>4
  <2>. QED BY <1>3, <1>7, <2>1, <2>2
<1>8. CASE EP_Read
  <2>1. Noted
    BY <1>1, <1>8 DEF EP_Read, Stage, Idle, Raised, Noted, Taken, Armed
  <2>2. /\ queue = <<>> /\ ~Flying /\ packet' = packet + 1 /\ sent' = 0
        /\ packet # 0 => sent > 0 /\ sent = Total(requests[packet])
        /\ UNCHANGED <<queue, tx_succesfull, txCtr, requests, received>>
        /\ packet \in Nat
    BY <1>1, <1>8, <2>1 DEF EP_Read, Noted, Awaited, Typed
  <2>3. Got' = 0 /\ Got = sent
    <3>1. Got' = sent' - Len(queue') /\ Got = sent - Len(queue)
      BY <2>2 DEF Got, Handed, Flying
    <3>2. queue = <<>> /\ queue' = <<>>
      BY <2>2
    <3>3. Len(queue) = 0 /\ Len(queue') = 0
      BY <3>2
    <3>4. sent \in Nat
      BY <1>1 DEF Typed
    <3>5. sent' = 0
      BY <2>2
    <3>. QED BY <3>1, <3>3, <3>4, <3>5
  <2>4. packet = 0 => received = <<>>
    <3>1. received \in Seq(Bytes) /\ Len(received) \in Nat
      BY <1>1 DEF Typed
    <3>2. packet = 0 => ~ \E i \in 1 .. Len(received) : TRUE
      BY <1>1 DEF Arrival
    <3>3. packet = 0 => Len(received) = 0
      BY <3>1, <3>2
    <3>. QED BY <3>1, <3>3, EmptySeq
  <2>5. received = <<>> => packet = 0
    BY <1>1, <2>2, <2>3 DEF Arrival
  <2>6. received # <<>> => received[Len(received)] = <<packet, Total(requests[packet])>>
    BY <1>1, <2>2, <2>3, <2>4 DEF Arrival
  <2>7. ASSUME NEW i \in 1 .. Len(received)
        PROVE  received[i][1] \in 1 .. packet' /\ received[i][1] # packet'
    BY <1>1, <2>2, <2>7 DEF Arrival
  <2>8. packet' - 1 = packet
    BY <2>2
  <2>. QED BY <1>1, <2>2, <2>3, <2>5, <2>6, <2>7, <2>8 DEF Arrival, Sequel, Total
<1>9. CASE serve
  BY <1>4, <1>9 DEF serve, Open, Connected, Got, Flying, Handed
<1>10. CASE RB_write
  <2>1. PICK n \in 0 .. size : Len(queue') = Len(queue) + n /\ sent' = sent + n
    BY <1>1, <1>10, WriteStep
  <2>2. UNCHANGED <<packet, requests, received, usbbuff, tx_succesfull, txCtr>>
    BY <1>10 DEF RB_write
  <2>3. Got' = Got
    BY <1>1, <2>1, <2>2 DEF Got, Handed, Flying, Typed
  <2>. QED BY <1>4, <2>2, <2>3
<1>11. CASE transmit_Handler \/ receive_Handler
  BY <1>4, <1>11 DEF transmit_Handler, receive_Handler, Got, Flying, Handed
<1>12. CASE HostIn
  BY <1>12, HostInArrival
<1>13. ASSUME NEW r \in plan.requests, HostOut(r)
       PROVE  Arrival'
  <2>1. \A k \in 1 .. Len(requests) : requests'[k] = requests[k]
    BY <1>1, <1>13, AppendProperties DEF HostOut, Typed
  <2>2. UNCHANGED <<packet, received>> /\ Got' = Got /\ packet \in 0 .. Len(requests)
    BY <1>1, <1>13 DEF HostOut, Got, Flying, Handed, Typed
  <2>3. \A k \in 1 .. packet : Total(requests'[k]) = Total(requests[k])
    BY <2>1, <2>2 DEF Typed
  <2>4. ASSUME NEW i \in 1 .. Len(received)
        PROVE  /\ received[i][1] \in 1 .. packet
               /\ received[i] = IF i = 1 THEN <<1, 1>> ELSE Sequel(received[i - 1])'
    <3>1. received[i][1] \in 1 .. packet
      BY <1>1 DEF Arrival
    <3>2. i # 1 => received[i - 1][1] \in 1 .. packet
      BY <1>1 DEF Arrival
    <3>3. i # 1 => Sequel(received[i - 1])' = Sequel(received[i - 1])
      BY <2>2, <2>3, <3>2 DEF Sequel
    <3>4. received[i] = IF i = 1 THEN <<1, 1>> ELSE Sequel(received[i - 1])
      BY <1>1 DEF Arrival
    <3>. QED BY <3>1, <3>3, <3>4
  <2>5. ASSUME NEW i \in 1 .. Len(received)
        PROVE  /\ received[i][2] \in 1 .. Total(requests'[received[i][1]])
               /\ received[i][1] = packet => received[i][2] <= Got
    <3>1. /\ received[i][2] \in 1 .. Total(requests[received[i][1]])
          /\ received[i][1] = packet => received[i][2] <= Got
      BY <1>1 DEF Arrival
    <3>. QED BY <2>3, <2>4, <3>1
  <2>6. received # <<>> =>
          received[Len(received)] = IF Got > 0 THEN <<packet, Got>>
                                    ELSE <<packet - 1, Total(requests'[packet - 1])>>
    <3>. SUFFICES ASSUME received # <<>>, ~(Got > 0)
                  PROVE  received[Len(received)] = <<packet - 1, Total(requests'[packet - 1])>>
      BY <1>1 DEF Arrival
    <3>1. received[Len(received)] = <<packet - 1, Total(requests[packet - 1])>>
      BY <1>1 DEF Arrival
    <3>2. Len(received) \in 1 .. Len(received)
      BY <1>1, EmptySeq DEF Typed
    <3>3. packet - 1 \in 1 .. packet
      BY <2>4, <3>1, <3>2
    <3>. QED BY <2>3, <3>1, <3>3
  <2>7. received = <<>> => Got = 0 /\ packet <= 1
    BY <1>1 DEF Arrival
  <2>8. /\ \A i \in 1 .. Len(received') :
             /\ received'[i] = IF i = 1 THEN <<1, 1>> ELSE Sequel(received[i - 1])'
             /\ received'[i][1] \in 1 .. packet'
             /\ received'[i][2] \in 1 .. Total(requests'[received'[i][1]])
             /\ received'[i][1] = packet' => received'[i][2] <= Got'
        /\ received' = <<>> => Got' = 0 /\ packet' <= 1
        /\ received' # <<>> =>
             received'[Len(received')] = IF Got' > 0 THEN <<packet', Got'>>
                                         ELSE <<packet' - 1, Total(requests'[packet' - 1])>>
    <3>1. received' = received /\ packet' = packet /\ Got' = Got
      BY <2>2
    <3>. QED BY <2>4, <2>5, <2>6, <2>7, <3>1
  <2>. QED BY <2>8 DEF Arrival
<1>. QED
  BY <1>5, <1>6, <1>7, <1>8, <1>9, <1>10, <1>11, <1>12, <1>13 DEF Active

\* Until the port is opened the main loop and the PC do nothing but enumerate.
LEMMA QuietStep ==
  ASSUME Typed, Progress, Session, Orderly, session = 0, Quiet, host # "open", Next
  PROVE  session' = 0 /\ (host' # "open" => Quiet') /\ (host' = "open" => Open')
<1>. USE DEF shared, sending, serving, ep2, ep3, pcside
<1>1. ~usbON
  BY DEF Session
<1>2. CASE UNCHANGED <<host, session>> /\ Quiet'
  BY <1>2
<1>3. CASE connect
  BY <1>3 DEF Quiet, connect, Typed
<1>4. CASE usb_proc
  <2>1. pc = "proc" /\ UNCHANGED <<status, tx_succesfull, rxNE, rx_cnt, sending, serving, ep2, ep3, pcside>>
        /\ (pc' = "recv" \/ (pc' = "init2" /\ status = "CONFIGURED"))
    BY <1>1, <1>4 DEF usb_proc
  <2>. QED BY <2>1 DEF Quiet
<1>5. CASE EP_Init2
  BY <1>5, FlipFacts DEF Quiet, EP_Init2, Typed
<1>6. CASE EP_Init3
  BY <1>6, FlipFacts DEF Quiet, EP_Init3, Typed
<1>7. CASE usb_recv
  BY <1>1, <1>7 DEF Quiet, usb_recv, Typed
<1>8. ~(rearm \/ clear \/ EP_Write_write \/ EP_Read \/ serve \/ usb_send \/ RB_write
          \/ EP_WriteIRQ \/ EP_Write_read \/ transmit_Handler \/ receive_Handler)
  BY DEF Quiet, rearm, clear, EP_Write_write, EP_Read, serve, usb_send, RB_write,
     EP_WriteIRQ, EP_Write_read, transmit_Handler, receive_Handler
<1>9. ~(BusReset \/ SwitchOff \/ SwitchOn \/ HostIn \/ \E r : HostOut(r))
  BY DEF Orderly, Typed, BusReset, SwitchOff, SwitchOn, Control, HostIn, HostOut
<1>10. CASE SetAddress
  BY <1>10 DEF Quiet, SetAddress, Control, Settled, Spinning, Session, Typed
<1>11. CASE SetConfiguration
  BY <1>11 DEF Quiet, SetConfiguration, Control, Settled, Spinning, Session, Typed
<1>12. CASE SetControlLineState
  <2>1. host' = "open" /\ session' = 0
    BY <1>12 DEF SetControlLineState, Control
  <2>2. Connected' /\ rxStat = VALID
    BY <1>12 DEF Quiet, SetControlLineState, Control, Settled, Spinning, Session,
       Connected
  <2>3. UNCHANGED <<tx_succesfull, rxNE, rx_cnt, pc, sending, serving, ep2, ep3,
                    requests, received>>
    BY <1>12 DEF SetControlLineState, Control
  <2>4. Len(requests) = 0 /\ Len(received) = 0 /\ Len(queue) = 0
    <3>1. requests = <<>> /\ received = <<>> /\ queue = <<>>
      BY DEF Quiet
    <3>. QED BY <3>1
  <2>5. rxBuf = 0 /\ packet = 0 /\ sent = 0 /\ size = 0 /\ todo = <<>> /\ lastdsz = 0
    BY <2>4 DEF Quiet, Typed, Progress
  <2>6. ~Flying' /\ Got' = 0 /\ Handed' = 0 /\ pc \in {"proc", "recv"}
    <3>1. ~Flying'
      BY <2>3 DEF Quiet, Flying
    <3>2. queue' = queue /\ sent' = 0
      BY <2>3, <2>5
    <3>5. Len(queue') = 0
      BY <2>4, <3>2
    <3>6. Handed' = sent' - Len(queue') /\ Got' = Handed'
      BY <3>1 DEF Handed, Got
    <3>3. Handed' = 0 /\ Got' = 0
      BY <3>2, <3>5, <3>6
    <3>4. pc \in {"proc", "recv"}
      BY <1>12 DEF Quiet, SetControlLineState, Settled, Spinning
    <3>. QED BY <3>1, <3>3, <3>4
  <2>7. Stage'
    BY <2>2, <2>3, <2>5, <2>6 DEF Quiet, Stage, Idle
  <2>8. Awaited'
    BY <2>3, <2>4, <2>5 DEF Awaited
  <2>9. Transmission' /\ Contents'
    BY <2>3, <2>4, <2>5, <2>6 DEF Quiet, Transmission, Contents, Loading
  <2>10. Packets'
    BY <2>3, <2>5, <2>6, UsbAssumption DEF Packets
  <2>11. Arrival'
    <3>1. received' = <<>> /\ Len(received') = 0 /\ packet' = 0
      BY <2>3, <2>4, <2>5 DEF Quiet
    <3>. QED BY <2>6, <3>1 DEF Arrival
  <2>. QED BY <2>1, <2>2, <2>7, <2>8, <2>9, <2>10, <2>11 DEF Open
<1>. QED
  BY <1>3, <1>4, <1>5, <1>6, <1>7, <1>8, <1>9, <1>10, <1>11, <1>12 DEF Next, Main

LEMMA OrderlyInit == Init => OrderlyInv
  BY FlipFacts DEF Init, OrderlyInv, Quiet

LEMMA OrderlyStep == AnyPlan /\ OrderlyInv /\ [Next]_vars => OrderlyInv'
<1>1. CASE UNCHANGED vars
  BY <1>1 DEF vars, shared, sending, serving, ep2, ep3, pcside, OrderlyInv, Orderly,
     Quiet, Open, Connected, Stage, Idle, Raised, Noted, Taken, Armed, Awaited,
     Transmission, Contents, Packets, Arrival, Handed, Flying, Got, Cut, Whole,
     Loading, InSend, Sequel
<1>2. ASSUME Next
      PROVE  UNCHANGED plan
  BY <1>2 DEF shared, sending, serving, ep2, ep3, pcside, Next, Main, connect, rearm,
     clear, EP_Write_write, usb_proc, EP_Init2, EP_Init3, usb_recv, EP_Read, serve,
     usb_send, RB_write, EP_WriteIRQ, EP_Write_read, transmit_Handler,
     receive_Handler, BusReset, SetAddress, SetConfiguration, SetControlLineState,
     SwitchOff, SwitchOn, Control, HostIn, HostOut
<1>3. ASSUME AnyPlan, OrderlyInv, Next, Orderly
      PROVE  session' = 0 /\ (host' # "open" => Quiet') /\ (host' = "open" => Open')
  <2>1. CASE host # "open"
    BY <1>3, <2>1, QuietStep DEF AnyPlan, Types, OrderlyInv
  <2>2. CASE host = "open"
    <3>1. Types /\ Open
      BY <1>3, <2>2 DEF AnyPlan, OrderlyInv
    <3>2. Active /\ host' = "open"
      BY <1>3, <2>2, <3>1, OpenActive
    <3>3. Connected' /\ Stage' /\ Awaited' /\ Transmission' /\ Contents' /\ Packets' /\ Arrival'
      BY <1>3, <2>2, <3>1, <3>2, ConnectedStep, StageStep, AwaitedStep, TransmissionStep,
         ContentsStep, PacketsStep, ArrivalStep
    <3>. QED BY <3>2, <3>3 DEF Open, Connected
  <2>. QED BY <2>1, <2>2
<1>4. ASSUME AnyPlan, OrderlyInv, Next
      PROVE  OrderlyInv'
  <2>1. Orderly' => Orderly
    BY <1>2, <1>4 DEF Orderly
  <2>. QED BY <1>3, <1>4, <2>1 DEF OrderlyInv
<1>. QED BY <1>1, <1>4

LEMMA OrderlyInvariant == Spec => [](AnyPlan /\ OrderlyInv)
<1>1. AnyPlan /\ OrderlyInv /\ [Next]_vars => OrderlyInv'
  BY OrderlyStep
<1>. QED BY AnyPlanInv, OrderlyInit, <1>1, PTL DEF Spec

\* An orderly PC receives the answers to its requests in order, with no byte
\* lost, repeated or made up, whatever the buffer's and the packets' size.
THEOREM AnswersInOrder == Spec => []InOrder
<1>1. AnyPlan /\ OrderlyInv => InOrder
  <2>. SUFFICES ASSUME AnyPlan, OrderlyInv, Orderly, NEW i \in 1 .. Len(received)
                PROVE  /\ received[i] = IF i = 1 THEN <<1, 1>> ELSE Sequel(received[i - 1])
                       /\ received[i][1] <= Len(requests)
                       /\ received[i][2] <= Total(requests[received[i][1]])
    BY DEF InOrder
  <2>1. Typed
    BY DEF AnyPlan, Types
  <2>2. CASE host # "open"
    <3>1. received = <<>>
      BY <2>2 DEF OrderlyInv, Quiet
    <3>2. Len(received) = 0
      BY <3>1
    <3>. QED BY <3>2
  <2>3. CASE host = "open"
    <3>1. Arrival
      BY <2>3 DEF OrderlyInv, Open
    <3>2. packet \in 0 .. Len(requests) /\ Len(requests) \in Nat
      BY <2>1 DEF Typed
    <3>3. received[i] = IF i = 1 THEN <<1, 1>> ELSE Sequel(received[i - 1])
      BY <3>1 DEF Arrival
    <3>4. received[i][1] \in 1 .. packet
          /\ received[i][2] \in 1 .. Total(requests[received[i][1]])
      BY <3>1 DEF Arrival
    <3>5. received[i][1] \in 1 .. Len(requests)
      BY <3>2, <3>4
    <3>6. Total(requests[received[i][1]]) \in Nat
      BY <2>1, <3>5, RequestFacts
    <3>. QED BY <3>2, <3>3, <3>4, <3>5, <3>6
  <2>. QED BY <2>2, <2>3
<1>. QED BY OrderlyInvariant, <1>1, PTL

\* With an orderly PC a transmission that has begun is never forgotten: the
\* main loop can always count on tx_succesfull being set again.
THEOREM NeverWedged == Spec => []NoWedge
<1>1. AnyPlan /\ OrderlyInv => NoWedge
  BY DEF AnyPlan, Types, Typed, OrderlyInv, Quiet, Open, Transmission, Flying, Loading, NoWedge
<1>. QED BY OrderlyInvariant, <1>1, PTL

\* With an orderly PC the packet memory of EP3 is rewritten only while the
\* hardware is not to transmit it.
THEOREM BufferIsOwned == Spec => []BufferOwned
<1>1. AnyPlan /\ OrderlyInv => BufferOwned
  BY DEF AnyPlan, Types, Typed, OrderlyInv, Quiet, Open, Transmission, Flying, Loading, BufferOwned
<1>. QED BY OrderlyInvariant, <1>1, PTL

\* With an orderly PC a request that waits in EP2 is one the main loop has
\* been or will be told of: clearing rxNE never hides a new packet.
THEOREM PacketsNoticed == Spec => []NoLostPacket
<1>1. AnyPlan /\ OrderlyInv => NoLostPacket
  BY FlipFacts DEF OrderlyInv, Open, Stage, Idle, Raised, Noted, Taken, Armed, NoLostPacket
<1>. QED BY OrderlyInvariant, <1>1, PTL
============================================================================
