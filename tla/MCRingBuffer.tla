--------------------------- MODULE MCRingBuffer ---------------------------
(* RingBuffer on a ring whose size no block or input length divides, with  *)
(* inputs up to one byte longer than the ring can take.                    *)
EXTENDS RingBuffer

CONSTANT MaxInput  \* length of the longest string written

MCInputs == UNION {[1 .. n -> Byte] : n \in 0 .. MaxInput}
===========================================================================
