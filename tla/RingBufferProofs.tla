------------------------- MODULE RingBufferProofs -------------------------
(***************************************************************************)
(* Proofs about RingBuffer for every ring size, block size and input set.  *)
(* The type invariant is inductive by itself; the refinement of ByteQueue  *)
(* follows from it and from three lemmas on what a call copies.            *)
(***************************************************************************)
EXTENDS RingBuffer, SequenceTheorems, TLAPS

USE SizeAssumption, DataAssumption

\* The index arithmetic stays inside the array: an index advanced by at
\* most RBSIZE is again a slot, and no more bytes are unread than fit.
LEMMA IndexFacts ==
  ASSUME TypeOK
  PROVE  /\ datalen \in 0 .. RBSIZE - 1
         /\ restlen \in 0 .. RBSIZE - 1
         /\ \A n \in 0 .. RBSIZE : incr(head, n) \in Slot /\ incr(tail, n) \in Slot
BY DEF TypeOK, Slot, datalen, restlen, incr

\* The unread bytes form a sequence of datalen bytes.
ContentsFact ==
  /\ Contents \in Seq(Byte)
  /\ Len(Contents) = datalen
  /\ \A i \in 1 .. datalen : /\ SlotOf(i) \in Slot
                             /\ Contents[i] = ringbuffer[SlotOf(i)]

\* Types make the contents well defined.
LEMMA ContentsFacts == TypeOK => ContentsFact
<1> SUFFICES ASSUME TypeOK PROVE ContentsFact
  OBVIOUS
<1>1. datalen \in Nat /\ \A i \in 1 .. datalen : SlotOf(i) \in Slot
  BY IndexFacts DEF SlotOf
<1>2. \A i \in 1 .. datalen : ringbuffer[SlotOf(i)] \in Byte
  BY <1>1 DEF TypeOK
<1>3. Contents \in Seq(Byte)
  BY <1>1, <1>2, IsASeq DEF Contents
<1> QED
  BY <1>1, <1>3 DEF Contents, ContentsFact

\* The same of the state after a step.
LEMMA ContentsFactsNext == TypeOK' => ContentsFact'
BY ContentsFacts, PTL

\* RB_read returns the oldest bytes, as many as there are up to BLOCKSIZE,
\* whether or not they wrap.
LEMMA ReadFacts ==
  ASSUME TypeOK, RB_read
  PROVE  LET n == Lesser(datalen, BLOCKSIZE)
         IN  /\ n \in 0 .. datalen
             /\ out' \in Seq(Byte)
             /\ Len(out') = n
             /\ \A i \in 1 .. n : out'[i] = ringbuffer[SlotOf(i)]
             /\ head' = incr(head, n)
             /\ ret' = n
             /\ UNCHANGED <<ringbuffer, tail>>
<1> DEFINE l == Lesser(datalen, BLOCKSIZE)
           fst == Lesser(Lesser(RBSIZE - head, l), BLOCKSIZE)
           size == IF fst < BLOCKSIZE /\ l > fst THEN l ELSE fst
           e(j) == IF j <= fst THEN ringbuffer[head + j - 1]
                               ELSE ringbuffer[j - fst - 1]
<1>1. l \in 0 .. datalen /\ l <= BLOCKSIZE /\ datalen \in 0 .. RBSIZE - 1
  BY IndexFacts DEF Lesser
<1>2. fst = Lesser(RBSIZE - head, l) /\ size = l
  BY <1>1 DEF TypeOK, Slot, Lesser
<1>3. \A j \in 1 .. l : e(j) = ringbuffer[SlotOf(j)]
  BY <1>1, <1>2 DEF TypeOK, Slot, Lesser, SlotOf, incr
<1>4. \A j \in 1 .. l : e(j) \in Byte
  BY <1>1, <1>3, ContentsFacts DEF TypeOK, ContentsFact
<1>5. out' = [j \in 1 .. l |-> e(j)]
  BY <1>2 DEF RB_read
<1>6. out' \in Seq(Byte)
  <2> HIDE DEF e, l
  <2> QED BY <1>1, <1>4, <1>5, IsASeq
<1>7. Len(out') = l /\ \A j \in 1 .. l : out'[j] = ringbuffer[SlotOf(j)]
  <2> HIDE DEF e, l
  <2> QED BY <1>1, <1>3, <1>5
<1>8. head' = incr(head, l) /\ ret' = l /\ UNCHANGED <<ringbuffer, tail>>
  BY <1>2 DEF RB_read
<1> QED
  BY <1>1, <1>6, <1>7, <1>8

\* RB_write keeps every unread byte and appends the longest prefix of str
\* that fits, whether or not it wraps.
LEMMA WriteFacts ==
  ASSUME TypeOK, NEW str \in Inputs, RB_write(str)
  PROVE  LET n == Lesser(Len(str), restlen)
         IN  /\ n \in 0 .. restlen
             /\ n <= Len(str)
             /\ ringbuffer' \in [Slot -> Byte]
             /\ \A i \in 1 .. datalen : ringbuffer'[SlotOf(i)] = ringbuffer[SlotOf(i)]
             /\ \A i \in 1 .. n : ringbuffer'[SlotOf(datalen + i)] = str[i]
             /\ tail' = incr(tail, n)
             /\ ret' = n
             /\ UNCHANGED <<head, out>>
<1> DEFINE l == Lesser(Len(str), restlen)
           fst == Lesser(RBSIZE - tail, l)
<1>1. str \in Seq(Byte) /\ Len(str) \in Nat
  OBVIOUS
<1>2. \A i \in 1 .. Len(str) : str[i] \in Byte
  BY <1>1
<1>0. /\ head \in Slot /\ tail \in Slot /\ head \in Int /\ tail \in Int
      /\ datalen \in Nat /\ restlen \in Nat /\ datalen + restlen = RBSIZE - 1
  <2>1. datalen \in 0 .. RBSIZE - 1
    BY IndexFacts
  <2>2. head \in Slot /\ tail \in Slot
    BY DEF TypeOK
  <2> QED BY <2>1, <2>2 DEF Slot, restlen
<1>3. l \in 0 .. restlen /\ l <= Len(str) /\ l \in Int
  BY <1>0, <1>1 DEF Lesser
<1>4. fst \in 0 .. l /\ fst \in Int /\ fst = IF RBSIZE - tail <= l THEN RBSIZE - tail ELSE l
  BY <1>3 DEF TypeOK, Slot, Lesser
<1>5. /\ DOMAIN ringbuffer' = Slot
      /\ ringbuffer' = [i \in Slot |-> ringbuffer'[i]]
      /\ \A i \in Slot :
           /\ i >= tail /\ i < tail + fst => ringbuffer'[i] = str[i - tail + 1]
           /\ ~(i >= tail /\ i < tail + fst) /\ i < l - fst
                => ringbuffer'[i] = str[fst + i + 1]
           /\ ~(i >= tail /\ i < tail + fst) /\ ~(i < l - fst)
                => ringbuffer'[i] = ringbuffer[i]
  <2> DEFINE e(i) == IF i >= tail /\ i < tail + fst THEN str[i - tail + 1]
                     ELSE IF i < l - fst THEN str[fst + i + 1]
                     ELSE ringbuffer[i]
  <2>1. ringbuffer' = [i \in Slot |-> e(i)]
    BY DEF RB_write
  <2>2. ASSUME NEW i \in Slot
        PROVE  /\ i >= tail /\ i < tail + fst => e(i) = str[i - tail + 1]
               /\ ~(i >= tail /\ i < tail + fst) /\ i < l - fst => e(i) = str[fst + i + 1]
               /\ ~(i >= tail /\ i < tail + fst) /\ ~(i < l - fst) => e(i) = ringbuffer[i]
    <3> HIDE DEF fst, l
    <3> QED OBVIOUS
  <2> HIDE DEF e
  <2> QED BY <2>1, <2>2
<1> HIDE DEF fst, l
<1>6. ringbuffer' \in [Slot -> Byte]
  <2>1. ASSUME NEW i \in Slot
        PROVE  ringbuffer'[i] \in Byte
    <3>1. CASE i >= tail /\ i < tail + fst
      <4>1. i - tail + 1 \in 1 .. Len(str)
        BY <1>0, <1>1, <1>3, <1>4, <3>1 DEF TypeOK, Slot
      <4> QED BY <4>1, <1>2, <1>5, <3>1
    <3>2. CASE ~(i >= tail /\ i < tail + fst) /\ i < l - fst
      <4>1. fst + i + 1 \in 1 .. Len(str)
        BY <1>0, <1>1, <1>3, <1>4, <3>2 DEF TypeOK, Slot
      <4> QED BY <4>1, <1>2, <1>5, <3>2
    <3>3. CASE ~(i >= tail /\ i < tail + fst) /\ ~(i < l - fst)
      BY <1>5, <3>3 DEF TypeOK
    <3> QED BY <3>1, <3>2, <3>3
  <2> QED BY <2>1, <1>5
<1>7. ASSUME NEW i \in 1 .. datalen
      PROVE  ringbuffer'[SlotOf(i)] = ringbuffer[SlotOf(i)]
  <2>1. SlotOf(i) \in Slot
    BY ContentsFacts DEF ContentsFact
  <2>2. ~(SlotOf(i) >= tail /\ SlotOf(i) < tail + fst) /\ ~(SlotOf(i) < l - fst)
    BY <1>0, <1>3, <1>4 DEF TypeOK, Slot, SlotOf, incr, datalen, restlen
  <2> QED
    BY <1>5, <2>1, <2>2
<1>8. ASSUME NEW i \in 1 .. l
      PROVE  ringbuffer'[SlotOf(datalen + i)] = str[i]
  <2> DEFINE k == SlotOf(datalen + i)
  <2>1. k \in Slot
    BY <1>0, <1>3 DEF TypeOK, Slot, SlotOf, incr, datalen, restlen
  <2>2. CASE i <= fst
    <3>1. k = tail + i - 1
      BY <1>0, <1>3, <1>4, <2>2 DEF TypeOK, Slot, SlotOf, incr, datalen, restlen
    <3>2. k >= tail /\ k < tail + fst /\ k - tail + 1 = i
      BY <1>0, <1>3, <1>4, <2>2, <3>1 DEF TypeOK, Slot
    <3> QED BY <1>5, <2>1, <3>2
  <2>3. CASE ~(i <= fst)
    <3>1. k = i - fst - 1 /\ k < l - fst /\ ~(k >= tail /\ k < tail + fst)
      BY <1>0, <1>3, <1>4, <2>3 DEF TypeOK, Slot, SlotOf, incr, datalen, restlen
    <3>2. fst + k + 1 = i
      BY <1>0, <1>3, <1>4, <3>1
    <3> QED BY <1>5, <2>1, <3>1, <3>2
  <2> QED
    BY <2>2, <2>3
<1>9. tail' = incr(tail, l) /\ ret' = l /\ UNCHANGED <<head, out>>
  BY DEF RB_write, l
<1> QED
  BY <1>3, <1>6, <1>7, <1>8, <1>9 DEF l

---------------------------------------------------------------------------

LEMMA InitTypeOK == Init => TypeOK
<1> SUFFICES ASSUME Init PROVE TypeOK
  OBVIOUS
<1>1. out \in Seq(Byte)
  BY EmptySeq DEF Init
<1> QED
  BY <1>1 DEF Init, TypeOK, Slot

LEMMA NextTypeOK == TypeOK /\ [Next]_vars => TypeOK'
<1> SUFFICES ASSUME TypeOK, [Next]_vars
             PROVE  TypeOK'
  OBVIOUS
<1>1. CASE RB_read
  BY <1>1, ReadFacts, IndexFacts DEF TypeOK
<1>2. ASSUME NEW str \in Inputs, RB_write(str)
      PROVE  TypeOK'
  BY <1>2, WriteFacts, IndexFacts DEF TypeOK
<1>3. CASE UNCHANGED vars
  BY <1>3 DEF TypeOK, vars, Slot
<1> QED
  BY <1>1, <1>2, <1>3 DEF Next

\* The indices never leave the array, whatever the sizes and the inputs.
THEOREM TypeCorrect == Spec => []TypeOK
<1> QED
  BY InitTypeOK, NextTypeOK, PTL DEF Spec

\* No call of the ring overwrites a byte that has not been read yet.
THEOREM UnreadNeverOverwritten == Spec => UnreadKept
<1>1. TypeOK /\ [Next]_vars =>
        [\A i \in 1 .. datalen : ringbuffer'[SlotOf(i)] = ringbuffer[SlotOf(i)]]_vars
  BY WriteFacts DEF Next, RB_read
<1> QED
  BY <1>1, TypeCorrect, PTL DEF Spec, UnreadKept
---------------------------------------------------------------------------

\* What a read of the abstract queue takes and leaves, by length and element.
LEMMA QueueReadFacts ==
  ASSUME NEW q \in Seq(Byte)
  PROVE  LET r == Queue!Lesser(Len(q), BLOCKSIZE)
         IN  /\ r \in 0 .. Len(q)
             /\ Queue!Portion(q) \in Seq(Byte)
             /\ Len(Queue!Portion(q)) = r
             /\ \A i \in 1 .. r : Queue!Portion(q)[i] = q[i]
             /\ Queue!Remainder(q) \in Seq(Byte)
             /\ Len(Queue!Remainder(q)) = Len(q) - r
             /\ \A i \in 1 .. Len(q) - r : Queue!Remainder(q)[i] = q[r + i]
<1> DEFINE r == Queue!Lesser(Len(q), BLOCKSIZE)
<1>1. Len(q) \in Nat
  OBVIOUS
<1>2. r \in 0 .. Len(q) /\ r \in Int
  BY <1>1 DEF Queue!Lesser
<1> HIDE DEF r
<1>3. /\ SubSeq(q, 1, r) \in Seq(Byte)
      /\ Len(SubSeq(q, 1, r)) = r
      /\ \A i \in 1 .. r : SubSeq(q, 1, r)[i] = q[i]
  <2>1. \A i \in 1 .. r : q[i] \in Byte
    BY <1>1, <1>2
  <2> QED BY <1>2, <2>1, SubSeqProperties
<1>4. /\ SubSeq(q, r + 1, Len(q)) \in Seq(Byte)
      /\ Len(SubSeq(q, r + 1, Len(q))) = Len(q) - r
      /\ \A i \in 1 .. Len(q) - r : SubSeq(q, r + 1, Len(q))[i] = q[r + i]
  <2>1. \A i \in r + 1 .. Len(q) : q[i] \in Byte
    BY <1>1, <1>2
  <2> QED BY <1>1, <1>2, <2>1, SubSeqProperties
<1> QED
  BY <1>2, <1>3, <1>4 DEF r, Queue!Portion, Queue!Remainder

\* What a write to the abstract queue stores, by length and element.
LEMMA QueueWriteFacts ==
  ASSUME NEW q \in Seq(Byte), NEW str \in Seq(Byte), Len(q) <= RBSIZE - 1
  PROVE  LET w == Queue!Lesser(Len(str), RBSIZE - 1 - Len(q))
         IN  /\ w \in 0 .. Len(str)
             /\ Queue!Accepted(q, str) \in Seq(Byte)
             /\ Len(Queue!Accepted(q, str)) = w
             /\ \A i \in 1 .. w : Queue!Accepted(q, str)[i] = str[i]
<1> DEFINE w == Queue!Lesser(Len(str), RBSIZE - 1 - Len(q))
<1>1. Len(q) \in Nat /\ Len(str) \in Nat
  OBVIOUS
<1>2. w \in 0 .. Len(str) /\ w \in Int
  BY <1>1 DEF Queue!Lesser
<1> HIDE DEF w
<1>3. \A i \in 1 .. w : str[i] \in Byte
  BY <1>1, <1>2
<1> QED
  BY <1>2, <1>3, SubSeqProperties DEF w, Queue!Accepted

LEMMA InitRefines == Init => Queue!Init
BY DEF Init, Queue!Init, Contents, datalen

\* A read of the ring is a read of the queue.
LEMMA ReadRefines ==
  ASSUME TypeOK, TypeOK', RB_read
  PROVE  Queue!Read
<1> DEFINE n == Lesser(datalen, BLOCKSIZE)
<1>1. datalen \in 0 .. RBSIZE - 1
  BY IndexFacts
<1>2. Contents \in Seq(Byte) /\ Len(Contents) = datalen
  BY ContentsFacts DEF ContentsFact
<1>3. n = Queue!Lesser(Len(Contents), BLOCKSIZE) /\ n \in 0 .. datalen /\ n \in Int
  BY <1>1, <1>2 DEF Lesser, Queue!Lesser
<1>4. out' = Queue!Portion(Contents)
  <2>1. /\ Queue!Portion(Contents) \in Seq(Byte)
        /\ Len(Queue!Portion(Contents)) = n
        /\ \A i \in 1 .. n : Queue!Portion(Contents)[i] = Contents[i]
    BY <1>1, <1>2, <1>3, QueueReadFacts
  <2>2. /\ out' \in Seq(Byte) /\ Len(out') = n
        /\ \A i \in 1 .. n : out'[i] = Contents[i]
    BY <1>1, <1>3, ReadFacts, ContentsFacts DEF ContentsFact
  <2> HIDE DEF n
  <2> QED BY <2>1, <2>2, SeqEqual
<1>5. ret' = Len(Queue!Portion(Contents))
  BY <1>1, <1>2, <1>3, QueueReadFacts, ReadFacts
<1>6. Contents' = Queue!Remainder(Contents)
  <2>1. /\ Queue!Remainder(Contents) \in Seq(Byte)
        /\ Len(Queue!Remainder(Contents)) = datalen - n
        /\ \A i \in 1 .. datalen - n : Queue!Remainder(Contents)[i] = Contents[n + i]
    <3> HIDE DEF n
    <3> QED BY <1>2, <1>3, QueueReadFacts
  <2>2. head' = incr(head, n) /\ UNCHANGED <<ringbuffer, tail>>
    BY ReadFacts
  <2> HIDE DEF n
  <2>0. /\ n \in Int /\ n >= 0 /\ n <= datalen
        /\ head \in Int /\ tail \in Int /\ head >= 0 /\ tail >= 0
        /\ head < RBSIZE /\ tail < RBSIZE
    BY <1>1, <1>3 DEF TypeOK, Slot
  <2>3. datalen' = datalen - n
    BY <2>0, <2>2 DEF datalen, incr
  <2>4. Contents' \in Seq(Byte) /\ Len(Contents') = datalen - n
        /\ \A i \in 1 .. datalen - n : Contents'[i] = ringbuffer[SlotOf(i)']
    BY <2>2, <2>3, ContentsFactsNext DEF ContentsFact
  <2>5. ASSUME NEW i \in 1 .. datalen - n
        PROVE  SlotOf(i)' = SlotOf(n + i)
    BY <1>1, <2>0, <2>2 DEF SlotOf, datalen, incr
  <2>6. \A i \in 1 .. datalen - n : Contents'[i] = Contents[n + i]
    BY <1>1, <1>3, <2>4, <2>5, ContentsFacts DEF ContentsFact
  <2> QED BY <2>1, <2>4, <2>6, SeqEqual
<1> QED
  BY <1>4, <1>5, <1>6 DEF Queue!Read

\* A write to the ring is a write to the queue.
LEMMA WriteRefines ==
  ASSUME TypeOK, TypeOK', NEW str \in Inputs, RB_write(str)
  PROVE  Queue!Write(str)
<1> DEFINE n == Lesser(Len(str), restlen)
           acc == Queue!Accepted(Contents, str)
<1>1. datalen \in 0 .. RBSIZE - 1 /\ restlen = RBSIZE - 1 - datalen
  BY IndexFacts DEF restlen
<1>2. Contents \in Seq(Byte) /\ Len(Contents) = datalen /\ str \in Seq(Byte)
  BY ContentsFacts DEF ContentsFact
<1>3. /\ n = Queue!Lesser(Len(str), RBSIZE - 1 - Len(Contents))
      /\ n \in 0 .. restlen /\ n <= Len(str) /\ n \in Int
  BY <1>1, <1>2 DEF Lesser, Queue!Lesser
<1>4. /\ acc \in Seq(Byte) /\ Len(acc) = n
      /\ \A i \in 1 .. n : acc[i] = str[i]
  BY <1>1, <1>2, <1>3, QueueWriteFacts
<1>5. /\ ret' = n /\ tail' = incr(tail, n) /\ UNCHANGED <<head, out>>
  BY WriteFacts
<1>6. Contents' = Contents \o acc
  <2> HIDE DEF n, acc
  <2>0. /\ n \in Int /\ n >= 0 /\ n <= RBSIZE - 1 - datalen
        /\ head \in Int /\ tail \in Int /\ head >= 0 /\ tail >= 0
        /\ head < RBSIZE /\ tail < RBSIZE
    BY <1>1, <1>3 DEF TypeOK, Slot
  <2>1. datalen' = datalen + n
    BY <1>5, <2>0 DEF datalen, incr
  <2>2. \A i \in Int : SlotOf(i)' = SlotOf(i)
    BY <1>5 DEF SlotOf, incr
  <2>3. /\ Contents' \in Seq(Byte) /\ Len(Contents') = datalen + n
        /\ \A i \in 1 .. datalen + n : Contents'[i] = ringbuffer'[SlotOf(i)]
    BY <2>1, <2>2, ContentsFactsNext DEF ContentsFact
  <2>4. /\ Contents \o acc \in Seq(Byte) /\ Len(Contents \o acc) = datalen + n
        /\ \A i \in 1 .. datalen + n : (Contents \o acc)[i] =
              IF i <= datalen THEN Contents[i] ELSE acc[i - datalen]
    BY <1>2, <1>4, ConcatProperties
  <2>5. ASSUME NEW i \in 1 .. datalen PROVE Contents'[i] = Contents[i]
    <3>1. i \in 1 .. datalen + n
      BY <1>1, <1>3
    <3>2. ringbuffer'[SlotOf(i)] = ringbuffer[SlotOf(i)]
      BY WriteFacts
    <3>3. Contents[i] = ringbuffer[SlotOf(i)]
      BY ContentsFacts DEF ContentsFact
    <3> QED BY <2>3, <3>1, <3>2, <3>3
  <2>6. ASSUME NEW i \in datalen + 1 .. datalen + n
        PROVE  Contents'[i] = acc[i - datalen]
    <3>1. i - datalen \in 1 .. n /\ datalen + (i - datalen) = i /\ i \in 1 .. datalen + n
      BY <1>1, <1>3
    <3>2. ringbuffer'[SlotOf(datalen + (i - datalen))] = str[i - datalen]
      BY <3>1, WriteFacts DEF n
    <3> QED BY <1>4, <2>3, <3>1, <3>2
  <2>7. \A i \in 1 .. datalen + n : Contents'[i] = (Contents \o acc)[i]
    BY <1>1, <1>3, <2>4, <2>5, <2>6
  <2> QED BY <2>3, <2>4, <2>7, SeqEqual
<1> QED
  BY <1>4, <1>5, <1>6 DEF Queue!Write

\* The ring implements the bounded FIFO, for every size of ring and block.
THEOREM RingImplementsQueue == Spec => RingIsQueue
<1>1. TypeOK /\ TypeOK' /\ [Next]_vars => [Queue!Next]_<<Contents, ret, out>>
  <2> SUFFICES ASSUME TypeOK, TypeOK', [Next]_vars
               PROVE  [Queue!Next]_<<Contents, ret, out>>
    OBVIOUS
  <2>1. CASE RB_read
    BY <2>1, ReadRefines DEF Queue!Next
  <2>2. ASSUME NEW str \in Inputs, RB_write(str)
        PROVE  Queue!Next
    BY <2>2, WriteRefines DEF Queue!Next
  <2>3. CASE UNCHANGED vars
    BY <2>3 DEF vars, Contents, datalen, SlotOf, incr
  <2> QED
    BY <2>1, <2>2, <2>3 DEF Next
<1> QED
  BY <1>1, InitRefines, TypeCorrect, PTL DEF Spec, RingIsQueue, Queue!Spec
===========================================================================
