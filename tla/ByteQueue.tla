---------------------------- MODULE ByteQueue ----------------------------
(***************************************************************************)
(* What the transmit buffer of the Bluepill firmware promises: a FIFO of   *)
(* at most Capacity bytes.  A write stores the longest prefix that still   *)
(* fits and returns its length; a read hands over the oldest bytes, at     *)
(* most Block of them, and removes them.                                   *)
(* RingBuffer.tla implements this specification; UsbDevice.tla uses it.    *)
(***************************************************************************)
EXTENDS Naturals, Sequences

CONSTANTS
  Byte,      \* the values of a byte
  Capacity,  \* the number of bytes the buffer can hold (RBSIZE - 1)
  Block,     \* the largest number of bytes one read returns (BLOCKSIZE)
  Inputs     \* the byte strings the callers write

VARIABLES
  queue,     \* the bytes accepted and not yet read, oldest first
  ret,       \* the value the last call returned
  out        \* the bytes the last read handed over

Lesser(a, b) == IF a <= b THEN a ELSE b

\* The bytes of str a buffer holding q has room for.
Accepted(q, str) == SubSeq(str, 1, Lesser(Len(str), Capacity - Len(q)))

\* The bytes one read takes from a buffer holding q, and what it leaves.
Portion(q) == SubSeq(q, 1, Lesser(Len(q), Block))
Remainder(q) == SubSeq(q, Lesser(Len(q), Block) + 1, Len(q))

Init ==
  /\ queue = <<>>
  /\ ret = 0
  /\ out = <<>>

Write(str) ==
  /\ queue' = queue \o Accepted(queue, str)
  /\ ret' = Len(Accepted(queue, str))
  /\ UNCHANGED out

Read ==
  /\ queue' = Remainder(queue)
  /\ out' = Portion(queue)
  /\ ret' = Len(Portion(queue))

Next == Read \/ \E str \in Inputs : Write(str)

Spec == Init /\ [][Next]_<<queue, ret, out>>
==========================================================================
