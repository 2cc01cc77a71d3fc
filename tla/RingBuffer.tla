---------------------------- MODULE RingBuffer ----------------------------
(***************************************************************************)
(* debug/bluepill/src/usb/ringbuffer.c: the ring of RBSIZE slots between   *)
(* usb_send, which fills it, and send_next, which takes packets out.       *)
(* Both run in the main loop and never in the interrupt handler, so a call *)
(* is one step.  A slot is always left free: head = tail means empty.      *)
(***************************************************************************)
EXTENDS Naturals, Sequences

CONSTANTS
  Byte,       \* the values of a byte
  Zero,       \* the byte a static array is initialised with
  RBSIZE,     \* the number of slots
  BLOCKSIZE,  \* the size of the buffer RB_read fills (USB_TXBUFSZ)
  Inputs      \* the byte strings the callers write

ASSUME SizeAssumption ==
  /\ RBSIZE \in Nat \ {0}
  /\ BLOCKSIZE \in Nat \ {0}

ASSUME DataAssumption ==
  /\ Zero \in Byte
  /\ Inputs \subseteq Seq(Byte)

VARIABLES
  ringbuffer,  \* the slots
  head,        \* the first data byte
  tail,        \* one past the last data byte
  ret,         \* the value the last call returned
  out          \* the bytes the last RB_read copied to its caller

vars == <<ringbuffer, head, tail, ret, out>>

Slot == 0 .. RBSIZE - 1

Lesser(a, b) == IF a <= b THEN a ELSE b

datalen == IF tail >= head THEN tail - head ELSE RBSIZE - head + tail

\* Mutants: the free slot forgotten, and the unread bytes forgotten.
restlen_NoFreeSlot == RBSIZE - datalen
restlen_IgnoresUnread == RBSIZE - 1
restlen == RBSIZE - 1 - datalen

incr(what, n) == IF what + n >= RBSIZE THEN what + n - RBSIZE ELSE what + n

Init ==
  /\ ringbuffer = [i \in Slot |-> Zero]
  /\ head = 0
  /\ tail = 0
  /\ ret = 0
  /\ out = <<>>

\* The read copies the run up to the end of the array and, when the data
\* wraps, a second piece from its start.
RB_read ==
  LET l    == Lesser(datalen, BLOCKSIZE)
      fst  == Lesser(Lesser(RBSIZE - head, l), BLOCKSIZE)
      size == IF fst < BLOCKSIZE /\ l > fst THEN l ELSE fst
  IN  /\ out' = [j \in 1 .. size |->
                   IF j <= fst THEN ringbuffer[head + j - 1]
                               ELSE ringbuffer[j - fst - 1]]
      /\ head' = incr(head, size)
      /\ ret' = size
      /\ UNCHANGED <<ringbuffer, tail>>

\* The write stores what fits, in one piece up to the end of the array and
\* a second one from its start.
RB_write(str) ==
  LET l   == Lesser(Len(str), restlen)
      fst == Lesser(RBSIZE - tail, l)
  IN  /\ ringbuffer' = [i \in Slot |->
                          IF i >= tail /\ i < tail + fst THEN str[i - tail + 1]
                          ELSE IF i < l - fst THEN str[fst + i + 1]
                          ELSE ringbuffer[i]]
      /\ tail' = incr(tail, l)
      /\ ret' = l
      /\ UNCHANGED <<head, out>>

Next == RB_read \/ \E str \in Inputs : RB_write(str)

Spec == Init /\ [][Next]_vars

---------------------------------------------------------------------------

\* Types: the indices stay inside the array ("if (*what >= RBSIZE)").
TypeOK ==
  /\ ringbuffer \in [Slot -> Byte]
  /\ head \in Slot
  /\ tail \in Slot
  /\ ret \in Nat
  /\ out \in Seq(Byte)

\* The slot that holds the i-th unread byte, and the unread bytes in order.
SlotOf(i) == incr(head, i - 1)
Contents == [i \in 1 .. datalen |-> ringbuffer[SlotOf(i)]]

\* No step overwrites an unread byte: a write touches only free slots, a
\* read gives slots back without changing them (mcpy pieces, restlen).
UnreadKept ==
  [][\A i \in 1 .. datalen : ringbuffer'[SlotOf(i)] = ringbuffer[SlotOf(i)]]_vars

Queue == INSTANCE ByteQueue WITH
  queue <- Contents, Capacity <- RBSIZE - 1, Block <- BLOCKSIZE

\* The ring is a FIFO of RBSIZE - 1 bytes: RB_write stores the longest
\* prefix that fits and RB_read returns the oldest bytes in order, across
\* every wrap of head and tail and with full told from empty.
RingIsQueue == Queue!Spec
==========================================================================
