------------------------- MODULE DebugClientProofs -------------------------
(***************************************************************************)
(* Proofs about CommandLoop and about DebugClient, the client that talks   *)
(* to it, for every memory, packet and buffer size and every set of        *)
(* requests, every set of lines a user enters and any number of times the  *)
(* plug is pulled.                                                         *)
(*                                                                         *)
(* First the loop: as long as the requests sent at a time fit in a packet, *)
(* it keeps its place among them and does what the protocol says.  The     *)
(* bytes are those of a list of requests put one behind the other, a       *)
(* recursive definition, so there is an induction to begin with.           *)
(*                                                                         *)
(* Then the client: the line is left clean after each command, and a       *)
(* command that has not complained has done to the memory what it says.    *)
(* It is shown request by request: how many of the script are done, and    *)
(* what they have stored.                                                  *)
(***************************************************************************)
EXTENDS DebugClient, SequenceTheorems, WellFoundedInduction, TLAPS

---------------------------------------------------------------------------
(* Induction, and sequences of sequences.                                  *)

\* The order of the natural numbers.
Less == {ss \in Nat \X Nat : ss[1] < ss[2]}

\* It is well founded.
LEMMA LessWF == IsWellFoundedOn(Less, Nat)
  BY NatLessThanWellFounded, Zenon DEF OpToRel, Less

\* A set with 0 and the successor of each of its numbers has all of them.
LEMMA SetInduction ==
  ASSUME NEW S, 0 \in S, \A n \in Nat : n \in S => n + 1 \in S
  PROVE  Nat \subseteq S
<1> DEFINE T == Nat \ S
<1>1. ASSUME T # {} PROVE FALSE
  <2>2. PICK x \in T : \A y \in T : ~ (<<y, x>> \in Less)
    BY <1>1, LessWF, WFMin, Zenon
  <2>3. \A y \in T : ~(y < x)
    BY <2>2 DEF Less
  <2>4. x # 0 /\ x - 1 \in Nat /\ x - 1 < x
    OBVIOUS
  <2>5. x - 1 \in S
    BY <2>3, <2>4
  <2>6. (x - 1) + 1 = x
    BY <2>4
  <2> QED BY <2>4, <2>5, <2>6
<1> QED BY <1>1

\* f[j] is the concatenation of the first j elements of s.
Sums(s, m, f) == f = [j \in 1 .. m |-> IF j = 1 THEN s[j] ELSE f[j - 1] \o s[j]]

\* There is such a function.
LEMMA SumsExist ==
  ASSUME NEW s, NEW n \in Nat
  PROVE  \E f : Sums(s, n, f)
<1> DEFINE Good == {m \in Nat : \E f : Sums(s, m, f)}
<1>1. 0 \in Good
  <2>1. Sums(s, 0, <<>>)
    BY DEF Sums
  <2> QED BY <2>1
<1>2. ASSUME NEW m \in Nat, m \in Good PROVE m + 1 \in Good
  <2>1. PICK f : Sums(s, m, f)
    BY <1>2
  <2> DEFINE g == [j \in 1 .. m + 1 |-> IF j <= m THEN f[j]
                                        ELSE IF j = 1 THEN s[j] ELSE f[j - 1] \o s[j]]
  <2>2. ASSUME NEW j \in 1 .. m + 1 PROVE g[j] = IF j = 1 THEN s[j] ELSE g[j - 1] \o s[j]
    <3>1. \A k \in 1 .. m : f[k] = IF k = 1 THEN s[k] ELSE f[k - 1] \o s[k]
      BY <2>1 DEF Sums
    <3> QED BY <3>1
  <2>3. Sums(s, m + 1, g)
    <3> DEFINE h == [j \in 1 .. m + 1 |-> IF j = 1 THEN s[j] ELSE g[j - 1] \o s[j]]
    <3>1. \A j \in 1 .. m + 1 : g[j] = h[j]
      BY <2>2
    <3>2. g = h
      BY <3>1
    <3> QED BY <3>2 DEF Sums
  <2> QED BY <2>3
<1> HIDE DEF Good
<1>3. Nat \subseteq Good
  BY <1>1, <1>2, SetInduction
<1> QED BY <1>3 DEF Good

\* FlattenSeq is its last value.
LEMMA FlattenIsSum ==
  ASSUME NEW s, Len(s) \in Nat \ {0}
  PROVE  \E f : Sums(s, Len(s), f) /\ FlattenSeq(s) = f[Len(s)]
<1> DEFINE f == CHOOSE g : Sums(s, Len(s), g)
<1>1. Sums(s, Len(s), f)
  BY SumsExist
<1>2. FlattenSeq(s) = f[Len(s)]
  BY DEF FlattenSeq, Sums
<1> QED BY <1>1, <1>2

\* Its values are sequences.
LEMMA SumsType ==
  ASSUME NEW T, NEW s \in Seq(Seq(T)), NEW f, NEW m \in Nat, m <= Len(s), Sums(s, m, f)
  PROVE  \A j \in 1 .. m : f[j] \in Seq(T)
<1> DEFINE Good == {j \in Nat : j + 1 <= m => f[j + 1] \in Seq(T)}
<1>1. \A j \in 1 .. m : f[j] = IF j = 1 THEN s[j] ELSE f[j - 1] \o s[j]
  BY DEF Sums
<1>2. \A j \in 1 .. m : s[j] \in Seq(T)
  BY LenProperties
<1>3. 0 \in Good
  BY <1>1, <1>2
<1>4. ASSUME NEW j \in Nat, j \in Good PROVE j + 1 \in Good
  <2> SUFFICES ASSUME (j + 1) + 1 <= m PROVE f[(j + 1) + 1] \in Seq(T)
    OBVIOUS
  <2>1. f[j + 1] \in Seq(T)
    BY <1>4
  <2>2. (j + 1) + 1 \in 1 .. m /\ ((j + 1) + 1) - 1 = j + 1 /\ (j + 1) + 1 # 1
    OBVIOUS
  <2>3. f[(j + 1) + 1] = f[j + 1] \o s[(j + 1) + 1]
    BY <1>1, <2>2
  <2>4. s[(j + 1) + 1] \in Seq(T)
    BY <1>2, <2>2
  <2> QED BY <2>1, <2>3, <2>4, ConcatProperties
<1> HIDE DEF Good
<1>5. Nat \subseteq Good
  BY <1>3, <1>4, SetInduction
<1>6. ASSUME NEW j \in 1 .. m PROVE f[j] \in Seq(T)
  <2>1. j - 1 \in Nat /\ (j - 1) + 1 = j /\ j <= m
    OBVIOUS
  <2>2. j - 1 \in Good
    BY <1>5, <2>1
  <2> QED BY <2>1, <2>2 DEF Good
<1> QED BY <1>6

\* The values of a sequence are its head before those of its tail.
LEMMA SumsOfTail ==
  ASSUME NEW T, NEW s \in Seq(Seq(T)), s # <<>>,
         NEW f, Sums(s, Len(s), f), NEW g, Sums(Tail(s), Len(Tail(s)), g)
  PROVE  \A j \in 1 .. Len(Tail(s)) : f[j + 1] = s[1] \o g[j]
<1> DEFINE t == Tail(s)
           m == Len(t)
           Good == {j \in Nat : j + 1 <= m => f[(j + 1) + 1] = s[1] \o g[j + 1]}
<1>1. /\ t \in Seq(Seq(T)) /\ m \in Nat /\ Len(s) = m + 1
      /\ \A j \in 1 .. m : t[j] = s[j + 1] /\ t[j] \in Seq(T)
      /\ s[1] \in Seq(T)
  OBVIOUS
<1> HIDE DEF t, m
<1>2. \A j \in 1 .. m + 1 : f[j] = IF j = 1 THEN s[j] ELSE f[j - 1] \o s[j]
  BY <1>1 DEF Sums
<1>3. Sums(t, m, g)
  BY DEF t, m
<1>4. \A j \in 1 .. m : g[j] = IF j = 1 THEN t[j] ELSE g[j - 1] \o t[j]
  BY <1>3 DEF Sums
<1>5. \A j \in 1 .. m : g[j] \in Seq(T)
  <2>1. m <= Len(t)
    BY <1>1 DEF m
  <2> QED BY <1>1, <1>3, <2>1, SumsType
<1>6. 0 \in Good
  <2> SUFFICES ASSUME 1 <= m PROVE f[2] = s[1] \o g[1]
    <3>1. 0 + 1 = 1 /\ (0 + 1) + 1 = 2
      OBVIOUS
    <3> QED BY <3>1
  <2>1. 1 \in 1 .. m + 1 /\ 2 \in 1 .. m + 1 /\ 1 \in 1 .. m /\ 2 - 1 = 1 /\ 2 # 1
    BY <1>1
  <2>4. f[1] = s[1]
    BY <1>2, <2>1
  <2>5. f[2] = f[2 - 1] \o s[2]
    BY <1>2, <2>1
  <2>2. f[2] = f[1] \o s[2]
    BY <2>1, <2>5
  <2>3. g[1] = t[1] /\ t[1] = s[2]
    BY <1>1, <1>4, <2>1
  <2> QED BY <2>2, <2>3, <2>4
<1>7. ASSUME NEW j \in Nat, j \in Good PROVE j + 1 \in Good
  <2> SUFFICES ASSUME (j + 1) + 1 <= m
               PROVE f[((j + 1) + 1) + 1] = s[1] \o g[(j + 1) + 1]
    <3>1. j + 1 \in Nat
      OBVIOUS
    <3> QED BY <3>1
  <2>1. f[(j + 1) + 1] = s[1] \o g[j + 1]
    <3>1. j + 1 <= m
      BY <1>1
    <3> QED BY <1>7, <3>1
  <2> DEFINE k == j + 1
  <2>2. /\ k \in 1 .. m /\ k + 1 \in 1 .. m /\ (k + 1) + 1 \in 1 .. m + 1
        /\ ((k + 1) + 1) - 1 = k + 1 /\ (k + 1) - 1 = k /\ k + 1 # 1 /\ (k + 1) + 1 # 1
    BY <1>1
  <2> HIDE DEF k
  <2>3. f[(k + 1) + 1] = f[k + 1] \o s[(k + 1) + 1]
    BY <1>2, <2>2
  <2>4. g[k + 1] = g[k] \o t[k + 1]
    BY <1>4, <2>2
  <2>5. t[k + 1] = s[(k + 1) + 1] /\ t[k + 1] \in Seq(T)
    BY <1>1, <2>2
  <2>6. f[k + 1] = s[1] \o g[k]
    BY <2>1 DEF k
  <2>7. (s[1] \o g[k]) \o t[k + 1] = s[1] \o (g[k] \o t[k + 1])
    <3>1. g[k] \in Seq(T)
      BY <1>5, <2>2
    <3>2. s[1] \in Seq(T) /\ t[k + 1] \in Seq(T)
      BY <1>1, <2>5, Zenon
    <3> DEFINE a == s[1]
               b == g[k]
               c == t[k + 1]
    <3>3. a \in Seq(T) /\ b \in Seq(T) /\ c \in Seq(T)
      BY <3>1, <3>2
    <3> HIDE DEF a, b, c
    <3>4. (a \o b) \o c = a \o (b \o c)
      BY <3>3
    <3> QED BY <3>4 DEF a, b, c
  <2> QED BY <2>3, <2>4, <2>5, <2>6, <2>7 DEF k
<1> HIDE DEF Good
<1>8. Nat \subseteq Good
  BY <1>6, <1>7, SetInduction
<1>9. ASSUME NEW j \in 1 .. m PROVE f[j + 1] = s[1] \o g[j]
  <2>1. j - 1 \in Nat /\ (j - 1) + 1 = j /\ j <= m
    BY <1>1
  <2>2. j - 1 \in Good
    BY <1>8, <2>1
  <2> QED BY <2>1, <2>2 DEF Good
<1> QED BY <1>9 DEF t, m

\* The elements put one behind the other begin with the first.
LEMMA FlattenCons ==
  ASSUME NEW T, NEW s \in Seq(Seq(T)), s # <<>>
  PROVE  FlattenSeq(s) = Head(s) \o FlattenSeq(Tail(s))
<1> DEFINE t == Tail(s)
           n == Len(t)
<1>1. /\ t \in Seq(Seq(T)) /\ Head(s) = s[1] /\ s[1] \in Seq(T)
      /\ n \in Nat /\ Len(s) = n + 1
  OBVIOUS
<1>2. PICK f : Sums(s, Len(s), f) /\ FlattenSeq(s) = f[Len(s)]
  BY <1>1, FlattenIsSum
<1>3. \A g : Sums(t, n, g) => \A j \in 1 .. n : f[j + 1] = s[1] \o g[j]
  <2> SUFFICES ASSUME NEW g, Sums(Tail(s), Len(Tail(s)), g)
               PROVE  \A j \in 1 .. Len(Tail(s)) : f[j + 1] = s[1] \o g[j]
    OBVIOUS
  <2>1. Sums(s, Len(s), f) /\ s # <<>> /\ s \in Seq(Seq(T))
    BY <1>2
  <2> QED BY <2>1, SumsOfTail, Zenon
<1>4. t = <<>> <=> n = 0
  BY <1>1, EmptySeq
<1>5. n # 0 => \E g : Sums(t, n, g) /\ FlattenSeq(t) = g[n]
  BY <1>1, FlattenIsSum
<1>6. FlattenSeq(<<>>) = <<>>
  BY DEF FlattenSeq
<1> SUFFICES FlattenSeq(s) = s[1] \o FlattenSeq(t)
  BY <1>1
<1> HIDE DEF t, n
<1>7. CASE n = 0
  <2>1. f[1] = s[1]
    <3>1. 1 \in 1 .. 1 /\ Len(s) = 1
      BY <1>1, <1>7
    <3> QED BY <1>2, <3>1 DEF Sums
  <2>2. s[1] \o <<>> = s[1]
    BY <1>1
  <2> QED BY <1>1, <1>2, <1>4, <1>6, <1>7, <2>1, <2>2
<1>8. CASE n # 0
  <2>1. PICK g : Sums(t, n, g) /\ FlattenSeq(t) = g[n]
    BY <1>5, <1>8
  <2>2. n \in 1 .. n
    BY <1>1, <1>8
  <2>3. f[n + 1] = s[1] \o g[n]
    BY <1>3, <2>1, <2>2
  <2> QED BY <1>1, <1>2, <2>1, <2>3
<1> QED BY <1>7, <1>8

\* They are a sequence of the elements' elements.
LEMMA FlattenType ==
  ASSUME NEW T, NEW s \in Seq(Seq(T))
  PROVE  FlattenSeq(s) \in Seq(T)
<1>1. Len(s) \in Nat
  OBVIOUS
<1>2. CASE Len(s) = 0
  <2>1. s = <<>>
    BY <1>2, EmptySeq
  <2> QED BY <1>2, <2>1 DEF FlattenSeq
<1>3. CASE Len(s) # 0
  <2>1. PICK f : Sums(s, Len(s), f) /\ FlattenSeq(s) = f[Len(s)]
    BY <1>1, <1>3, FlattenIsSum
  <2>2. Len(s) \in 1 .. Len(s) /\ Len(s) <= Len(s)
    BY <1>1, <1>3
  <2> QED BY <1>1, <2>1, <2>2, SumsType
<1> QED BY <1>2, <1>3
---------------------------------------------------------------------------
(* Requests and their bytes.                                               *)

WithAddress == {CMD_MEM_WR, CMD_MEM_RD, CMD_MEM_WRN, CMD_MEM_RDN}

\* The requests of dbgproto.h, and of one byte any.
WellFormed ==
  {[cmd |-> c] : c \in Nat \ WithAddress}
    \cup {[cmd |-> CMD_MEM_WR, addr |-> a, data |-> <<b>>] : a \in CellAddresses, b \in ByteValues}
    \cup {[cmd |-> CMD_MEM_RD, addr |-> a] : a \in CellAddresses}
    \cup {[cmd |-> CMD_MEM_WRN, addr |-> a, data |-> d] :
            a \in CellAddresses, d \in {d \in Seq(ByteValues) : Len(d) \in ByteValues}}
    \cup {[cmd |-> CMD_MEM_RDN, addr |-> a, n |-> n] : a \in CellAddresses, n \in ByteValues}

Size(r) ==
  CASE r.cmd \in {CMD_MEM_WR, CMD_MEM_RDN} -> 4
    [] r.cmd = CMD_MEM_RD  -> 3
    [] r.cmd = CMD_MEM_WRN -> 4 + Len(r.data)
    [] OTHER               -> 1

\* The codes are different.
LEMMA Codes ==
  /\ WithAddress \subseteq Nat
  /\ CMD_MEM_WR # CMD_MEM_RD /\ CMD_MEM_WR # CMD_MEM_WRN /\ CMD_MEM_WR # CMD_MEM_RDN
  /\ CMD_MEM_RD # CMD_MEM_WRN /\ CMD_MEM_RD # CMD_MEM_RDN /\ CMD_MEM_WRN # CMD_MEM_RDN
  /\ CMD_VERSION \notin WithAddress
  /\ \A c \in WithAddress \cup {CMD_VERSION} : Batch(c)
BY DEF WithAddress, CMD_MEM_WR, CMD_MEM_RD, CMD_MEM_WRN, CMD_MEM_RDN, CMD_VERSION, Batch

\* An address is read as it was written.
LEMMA AddressFacts ==
  ASSUME NEW a \in CellAddresses
  PROVE  /\ AddressBytes(a) = <<a \div Radix, a % Radix>>
         /\ a \div Radix \in Nat /\ a % Radix \in Nat
         /\ AddressOf(a \div Radix, a % Radix) = a
<1>1. Radix \in Nat \ {0} /\ Radix * Radix \in Nat
  BY LoopAssumption
<1>2. a \in Nat
  BY <1>1 DEF CellAddresses
<1> DEFINE q == a \div Radix
           p == Radix * q
<1>3. q \in Nat /\ a % Radix \in Nat /\ a % Radix = a - p /\ p \in Int /\ p = q * Radix
  BY <1>1, <1>2
<1> HIDE DEF p
<1>4. p + (a - p) = a
  BY <1>2, <1>3
<1> QED BY <1>3, <1>4 DEF AddressBytes, AddressOf

\* The bytes of a request.
LEMMA EncodeFacts ==
  ASSUME NEW r \in WellFormed
  PROVE  /\ Encode(r) \in Seq(Nat) /\ Len(Encode(r)) = Size(r) /\ Size(r) \in Nat \ {0}
         /\ Encode(r)[1] = r.cmd
         /\ r.cmd \in WithAddress => AddressOf(Encode(r)[2], Encode(r)[3]) = r.addr
         /\ r.cmd = CMD_MEM_WR => r.data = <<Encode(r)[4]>>
         /\ r.cmd = CMD_MEM_WRN => Len(r.data) \in Nat /\ Encode(r)[4] = Len(r.data)
         /\ r.cmd = CMD_MEM_RDN => r.n \in Nat /\ Encode(r)[4] = r.n
<1> USE Codes
<1>0. ByteValues \subseteq Nat
  BY LoopAssumption DEF ByteValues
<1>1. CASE r.cmd \notin WithAddress
  <2>1. r.cmd \in Nat
    BY <1>0, <1>1 DEF WellFormed, WithAddress
  <2>2. Encode(r) = <<r.cmd>>
    BY <1>1 DEF Encode, WithAddress
  <2>3. Size(r) = 1
    BY <1>1 DEF Size, WithAddress
  <2>4. r.cmd \notin {CMD_MEM_WR, CMD_MEM_WRN, CMD_MEM_RDN}
    BY <1>1 DEF WithAddress
  <2> QED BY <1>1, <2>1, <2>2, <2>3, <2>4
<1>2. CASE r.cmd \in WithAddress
  <2>1. r.addr \in CellAddresses
    BY <1>2 DEF WellFormed
  <2> DEFINE hi == r.addr \div Radix
             lo == r.addr % Radix
  <2>2. AddressBytes(r.addr) = <<hi, lo>> /\ hi \in Nat /\ lo \in Nat /\ AddressOf(hi, lo) = r.addr
    BY <2>1, AddressFacts
  <2>3. r.cmd \in Nat
    BY <1>2
  <2> HIDE DEF hi, lo
  <2>4. CASE r.cmd = CMD_MEM_WR
    <3>1. PICK b \in ByteValues : r.data = <<b>>
      BY <2>4 DEF WellFormed, WithAddress
    <3>2. Encode(r) = <<r.cmd>> \o <<hi, lo>> \o <<b>> /\ Size(r) = 4
      BY <2>2, <2>4, <3>1 DEF Encode, Size
    <3>3. b \in Nat
      BY <1>0
    <3>4. /\ Encode(r) \in Seq(Nat) /\ Len(Encode(r)) = 4 /\ Encode(r)[1] = r.cmd
          /\ Encode(r)[2] = hi /\ Encode(r)[3] = lo /\ Encode(r)[4] = b
      BY <2>2, <2>3, <3>2, <3>3
    <3> QED BY <2>2, <2>4, <3>1, <3>2, <3>4
  <2>5. CASE r.cmd = CMD_MEM_RD
    <3>2. Encode(r) = <<r.cmd>> \o <<hi, lo>> /\ Size(r) = 3
      BY <2>2, <2>5 DEF Encode, Size
    <3>4. /\ Encode(r) \in Seq(Nat) /\ Len(Encode(r)) = 3 /\ Encode(r)[1] = r.cmd
          /\ Encode(r)[2] = hi /\ Encode(r)[3] = lo
      BY <2>2, <2>3, <3>2
    <3> QED BY <2>2, <2>5, <3>2, <3>4
  <2>6. CASE r.cmd = CMD_MEM_WRN
    <3>1. r.data \in Seq(ByteValues) /\ Len(r.data) \in Nat
      BY <1>0, <2>6 DEF WellFormed, WithAddress
    <3>2. Encode(r) = <<r.cmd>> \o <<hi, lo>> \o <<Len(r.data)>> \o r.data /\ Size(r) = 4 + Len(r.data)
      BY <2>2, <2>6 DEF Encode, Size
    <3>3. r.data \in Seq(Nat)
      <4>1. \A k \in 1 .. Len(r.data) : r.data[k] \in Nat
        BY <1>0, <3>1, ElementOfSeq
      <4> QED BY <3>1, <4>1
    <3>4. /\ Encode(r) \in Seq(Nat) /\ Len(Encode(r)) = 4 + Len(r.data) /\ Encode(r)[1] = r.cmd
          /\ Encode(r)[2] = hi /\ Encode(r)[3] = lo /\ Encode(r)[4] = Len(r.data)
      BY <2>2, <2>3, <3>1, <3>2, <3>3
    <3> QED BY <2>2, <2>6, <3>1, <3>2, <3>4
  <2>7. CASE r.cmd = CMD_MEM_RDN
    <3>1. r.n \in Nat
      <4>1. \E m \in ByteValues : r.n = m
        <5>1. \E a \in CellAddresses, m \in ByteValues :
                r = [cmd |-> CMD_MEM_RDN, addr |-> a, n |-> m]
          BY <2>7 DEF WellFormed, WithAddress
        <5> QED BY <5>1
      <4> QED BY <1>0, <4>1
    <3>2. Encode(r) = <<r.cmd>> \o <<hi, lo>> \o <<r.n>> /\ Size(r) = 4
      BY <2>2, <2>7 DEF Encode, Size
    <3>4. /\ Encode(r) \in Seq(Nat) /\ Len(Encode(r)) = 4 /\ Encode(r)[1] = r.cmd
          /\ Encode(r)[2] = hi /\ Encode(r)[3] = lo /\ Encode(r)[4] = r.n
      BY <2>2, <2>3, <3>1, <3>2
    <3> QED BY <2>2, <2>7, <3>1, <3>2, <3>4
  <2> QED BY <1>2, <2>4, <2>5, <2>6, <2>7 DEF WithAddress
<1> QED BY <1>1, <1>2

\* Two pieces put together.
LEMMA PiecesFacts ==
  ASSUME NEW T, NEW t \in Seq(T), NEW u \in Seq(T)
  PROVE  /\ t \o u \in Seq(T) /\ Len(t \o u) = Len(t) + Len(u) /\ Len(t) \in Nat /\ Len(u) \in Nat
         /\ \A k \in 1 .. Len(t) : (t \o u)[k] = t[k]
         /\ \A k \in 1 .. Len(u) : (t \o u)[Len(t) + k] = u[k]
<1>1. /\ t \o u \in Seq(T) /\ Len(t \o u) = Len(t) + Len(u)
      /\ \A k \in 1 .. Len(t) + Len(u) : (t \o u)[k] = IF k <= Len(t) THEN t[k] ELSE u[k - Len(t)]
  BY ConcatProperties
<1>2. Len(t) \in Nat /\ Len(u) \in Nat
  OBVIOUS
<1>3. ASSUME NEW k \in 1 .. Len(u) PROVE (t \o u)[Len(t) + k] = u[k]
  <2>1. Len(t) + k \in 1 .. Len(t) + Len(u) /\ ~(Len(t) + k <= Len(t)) /\ Len(t) + k - Len(t) = k
    BY <1>2
  <2> QED BY <1>1, <2>1
<1> QED BY <1>1, <1>2, <1>3

\* A piece cut out of a sequence.
LEMMA CutFacts ==
  ASSUME NEW T, NEW s \in Seq(T), NEW m \in Nat \ {0}, NEW n \in Nat, n <= Len(s), m <= n + 1
  PROVE  /\ SubSeq(s, m, n) \in Seq(T) /\ Len(SubSeq(s, m, n)) = n - m + 1
         /\ \A k \in 1 .. n - m + 1 : SubSeq(s, m, n)[k] = s[m + k - 1]
<1>1. \A k \in m .. n : s[k] \in T
  OBVIOUS
<1>2. SubSeq(s, m, n) \in Seq(T)
  BY <1>1, SubSeqProperties
<1>3. Len(SubSeq(s, m, n)) = n - m + 1
  OBVIOUS
<1>4. \A k \in 1 .. n - m + 1 : SubSeq(s, m, n)[k] = s[m + k - 1]
  BY <1>1, SubSeqProperties
<1> QED BY <1>2, <1>3, <1>4

\* The end of a sequence can be cut out.
LEMMA EndFacts ==
  ASSUME NEW s \in Seq(Nat), NEW c \in Seq(Nat), NEW m \in Nat \ {0}, NEW n \in Nat,
         n = m - 1 + Len(c), n <= Len(s), \A k \in 1 .. Len(c) : s[m - 1 + k] = c[k]
  PROVE  SubSeq(s, m, n) = c
<1> DEFINE t == SubSeq(s, m, n)
<1>1. m <= n + 1 /\ n - m + 1 = Len(c) /\ Len(c) \in Nat
  OBVIOUS
<1>2. /\ t \in Seq(Nat) /\ Len(t) = n - m + 1
      /\ \A k \in 1 .. n - m + 1 : t[k] = s[m + k - 1]
  BY <1>1, CutFacts
<1> HIDE DEF t
<1>3. ASSUME NEW k \in 1 .. Len(c) PROVE t[k] = c[k]
  <2>1. m + k - 1 = m - 1 + k /\ k \in 1 .. n - m + 1
    BY <1>1
  <2> QED BY <1>2, <2>1
<1>4. t = c
  BY <1>1, <1>2, <1>3, SeqEqual
<1> QED BY <1>4 DEF t


\* The bytes to store are bytes, a count among them.
LEMMA DataFacts ==
  ASSUME NEW r \in WellFormed
  PROVE  /\ r.cmd \in WithAddress => r.addr \in CellAddresses
         /\ r.cmd = CMD_MEM_WR => r.data \in Seq(ByteValues)
         /\ r.cmd = CMD_MEM_WRN => /\ Len(r.data) \in Nat
                                   /\ \A k \in 1 .. Len(r.data) : Encode(r)[3 + k] \in ByteValues
<1> USE Codes
<1>1. r.cmd \in WithAddress => r.addr \in CellAddresses
  BY DEF WellFormed
<1>2. ASSUME r.cmd = CMD_MEM_WR PROVE r.data \in Seq(ByteValues)
  <2>1. PICK b \in ByteValues : r.data = <<b>>
    BY <1>2 DEF WellFormed, WithAddress
  <2> QED BY <2>1
<1>3. ASSUME r.cmd = CMD_MEM_WRN
      PROVE  Len(r.data) \in Nat /\ \A k \in 1 .. Len(r.data) : Encode(r)[3 + k] \in ByteValues
  <2>1. r.data \in Seq(ByteValues) /\ Len(r.data) \in ByteValues /\ Len(r.data) \in Nat
    BY <1>3 DEF WellFormed, WithAddress
  <2>2. r.addr \in CellAddresses
    BY <1>1, <1>3 DEF WithAddress
  <2> DEFINE hi == r.addr \div Radix
             lo == r.addr % Radix
             d == r.data
             g == <<r.cmd>> \o <<hi, lo>> \o <<Len(d)>>
  <2>3. AddressBytes(r.addr) = <<hi, lo>> /\ hi \in Nat /\ lo \in Nat
    BY <2>2, AddressFacts
  <2>4. Encode(r) = g \o d
    BY <1>3, <2>3 DEF Encode
  <2>5. r.cmd \in Nat /\ Len(d) \in Nat
    BY <1>3, <2>1 DEF WithAddress
  <2>7. ByteValues \subseteq Nat
    BY LoopAssumption DEF ByteValues
  <2>8. d \in Seq(Nat)
    <3>1. \A k \in 1 .. Len(d) : d[k] \in Nat
      BY <2>1, <2>7, ElementOfSeq
    <3> QED BY <2>1, <3>1
  <2> HIDE DEF hi, lo, d
  <2>9. g \in Seq(Nat) /\ Len(g) = 4 /\ g[4] = Len(d) /\ 4 \in 1 .. 4
    BY <2>3, <2>5
  <2> HIDE DEF g
  <2>11. \A k \in 1 .. Len(g) : (g \o d)[k] = g[k]
    <3>1. g \in Seq(Nat) /\ d \in Seq(Nat)
      BY <2>8, <2>9
    <3> QED BY <3>1, PiecesFacts
  <2>12. \A k \in 1 .. Len(d) : (g \o d)[Len(g) + k] = d[k]
    <3>1. g \in Seq(Nat) /\ d \in Seq(Nat)
      BY <2>8, <2>9
    <3> QED BY <3>1, PiecesFacts
  <2>10. ASSUME NEW k \in 1 .. Len(d) PROVE Encode(r)[3 + k] \in ByteValues
    <3>1. Encode(r) = g \o d
      BY <2>4
    <3>2. CASE k = 1
      <4>1. 3 + k = 4
        BY <3>2
      <4>2. (g \o d)[4] = g[4]
        BY <2>9, <2>11
      <4> QED BY <2>1, <2>9, <3>1, <4>1, <4>2 DEF d
    <3>3. CASE k # 1
      <4>1. k - 1 \in 1 .. Len(d) /\ 3 + k = 4 + (k - 1)
        BY <2>5, <3>3
      <4>2. (g \o d)[4 + (k - 1)] = d[k - 1]
        BY <2>9, <2>12, <4>1
      <4>3. d[k - 1] \in ByteValues
        BY <2>1, <4>1, ElementOfSeq DEF d
      <4> QED BY <3>1, <4>1, <4>2, <4>3
    <3> QED BY <3>2, <3>3
  <2> QED BY <2>5, <2>10 DEF d
<1> QED BY <1>1, <1>2, <1>3

\* The bytes of a list of requests.
LEMMA BytesFacts ==
  ASSUME NEW batch \in Seq(WellFormed)
  PROVE  /\ Bytes(batch) \in Seq(Nat)
         /\ batch = <<>> => Bytes(batch) = <<>>
         /\ batch # <<>> => /\ Head(batch) \in WellFormed /\ Tail(batch) \in Seq(WellFormed)
                            /\ Bytes(Tail(batch)) \in Seq(Nat)
                            /\ Bytes(batch) = Encode(Head(batch)) \o Bytes(Tail(batch))
<1> DEFINE Encoded(b) == [k \in DOMAIN b |-> Encode(b[k])]
<1>1. ASSUME NEW b \in Seq(WellFormed)
      PROVE  /\ Encoded(b) \in Seq(Seq(Nat)) /\ Len(Encoded(b)) = Len(b)
             /\ \A k \in 1 .. Len(b) : Encoded(b)[k] = Encode(b[k])
  <2>1. DOMAIN b = 1 .. Len(b) /\ Len(b) \in Nat /\ \A k \in 1 .. Len(b) : b[k] \in WellFormed
    OBVIOUS
  <2>2. \A k \in 1 .. Len(b) : Encode(b[k]) \in Seq(Nat)
    BY <2>1, EncodeFacts
  <2> QED BY <2>1, <2>2
<1>2. \A b : Bytes(b) = FlattenSeq(Encoded(b))
  BY DEF Bytes
<1> HIDE DEF Encoded
<1>3. \A b \in Seq(WellFormed) : Bytes(b) \in Seq(Nat)
  BY <1>1, <1>2, FlattenType
<1>4. ASSUME batch = <<>> PROVE Bytes(batch) = <<>>
  <2>1. Len(Encoded(batch)) = 0 /\ Encoded(batch) \in Seq(Seq(Nat))
    BY <1>1, <1>4
  <2>2. Encoded(batch) = <<>>
    BY <2>1, EmptySeq
  <2> QED BY <1>2, <2>1, <2>2 DEF FlattenSeq
<1>5. ASSUME batch # <<>>
      PROVE  /\ Head(batch) \in WellFormed /\ Tail(batch) \in Seq(WellFormed)
             /\ Bytes(batch) = Encode(Head(batch)) \o Bytes(Tail(batch))
  <2> DEFINE t == Tail(batch)
             e == Encoded(batch)
  <2>1. /\ Head(batch) = batch[1] /\ Head(batch) \in WellFormed /\ t \in Seq(WellFormed)
        /\ Len(batch) \in Nat \ {0} /\ Len(t) = Len(batch) - 1
        /\ \A k \in 1 .. Len(t) : t[k] = batch[k + 1]
    BY <1>5
  <2> HIDE DEF t
  <2>2. /\ e \in Seq(Seq(Nat)) /\ Len(e) = Len(batch)
        /\ \A k \in 1 .. Len(batch) : e[k] = Encode(batch[k])
    BY <1>1
  <2> HIDE DEF e
  <2>3. e # <<>> /\ Head(e) = Encode(Head(batch))
    <3>1. 1 \in 1 .. Len(batch) /\ Len(e) # 0
      BY <2>1, <2>2
    <3>2. e # <<>>
      BY <2>2, <3>1
    <3> QED BY <2>1, <2>2, <3>1, <3>2
  <2>4. Tail(e) = Encoded(t)
    <3>1. /\ Encoded(t) \in Seq(Seq(Nat)) /\ Len(Encoded(t)) = Len(t)
          /\ \A k \in 1 .. Len(t) : Encoded(t)[k] = Encode(t[k])
      BY <1>1, <2>1
    <3>2. /\ Tail(e) \in Seq(Seq(Nat)) /\ Len(Tail(e)) = Len(t)
          /\ \A k \in 1 .. Len(t) : Tail(e)[k] = e[k + 1]
      BY <2>1, <2>2, <2>3
    <3>3. ASSUME NEW k \in 1 .. Len(t) PROVE e[k + 1] = Encode(t[k])
      <4>1. k + 1 \in 1 .. Len(batch)
        BY <2>1
      <4>2. e[k + 1] = Encode(batch[k + 1])
        BY <2>2, <4>1
      <4> QED BY <2>1, <4>2
    <3>4. \A k \in 1 .. Len(t) : Tail(e)[k] = Encoded(t)[k]
      BY <3>1, <3>2, <3>3
    <3> QED BY <3>1, <3>2, <3>4, SeqEqual
  <2>5. FlattenSeq(e) = Head(e) \o FlattenSeq(Tail(e))
    BY <2>2, <2>3, FlattenCons
  <2>6. Bytes(batch) = FlattenSeq(e) /\ Bytes(t) = FlattenSeq(Tail(e))
    BY <1>2, <2>4 DEF e
  <2> QED BY <2>1, <2>3, <2>5, <2>6 DEF t
<1> QED BY <1>3, <1>4, <1>5
---------------------------------------------------------------------------
(* The memory.                                                             *)

\* Every sum is an address, and nothing is lost below the end of the memory.
LEMMA PlusFacts ==
  ASSUME NEW a \in Nat, NEW j \in Nat
  PROVE  /\ Plus(a, j) \in CellAddresses
         /\ a + j \in CellAddresses => Plus(a, j) = a + j
<1>1. Radix \in Nat \ {0}
  BY LoopAssumption
<1> DEFINE top == Radix * Radix
<1>2. top \in Nat /\ top # 0
  BY <1>1
<1> HIDE DEF top
<1>3. (a + j) % top \in 0 .. top - 1 /\ (a + j < top => (a + j) % top = a + j)
  BY <1>2
<1> QED BY <1>2, <1>3 DEF Plus, CellAddresses, top

\* An address is a number.
LEMMA AddressIsNat == CellAddresses \subseteq Nat /\ 0 \in CellAddresses
<1>1. Radix * Radix \in Nat /\ Radix * Radix # 0
  BY LoopAssumption
<1> QED BY <1>1 DEF CellAddresses

\* Nothing is added to an address.
LEMMA PlusZero ==
  ASSUME NEW p \in CellAddresses
  PROVE  Plus(p, 0) = p
<1>1. p \in Nat /\ 0 \in Nat /\ p + 0 = p
  BY AddressIsNat
<1> QED BY <1>1, PlusFacts

\* Of some numbers up to n one is the greatest.
LEMMA MaxFacts ==
  ASSUME NEW n \in Nat, NEW S \in SUBSET (1 .. n), S # {}
  PROVE  Max(S) \in S /\ \A y \in S : y <= Max(S)
<1> DEFINE Good == {k \in Nat : \A T \in SUBSET (1 .. k) : T # {} => \E x \in T : \A y \in T : x >= y}
<1>1. 0 \in Good
  <2>1. \A T \in SUBSET (1 .. 0) : T = {}
    OBVIOUS
  <2> QED BY <2>1
<1>2. ASSUME NEW k \in Nat, k \in Good PROVE k + 1 \in Good
  <2>1. SUFFICES ASSUME NEW T \in SUBSET (1 .. k + 1), T # {}
                 PROVE  \E x \in T : \A y \in T : x >= y
    OBVIOUS
  <2>2. CASE k + 1 \in T
    BY <2>2
  <2>3. CASE k + 1 \notin T
    <3>1. T \in SUBSET (1 .. k)
      BY <2>3
    <3> QED BY <1>2, <2>1, <3>1
  <2> QED BY <2>2, <2>3
<1> HIDE DEF Good
<1>3. n \in Good
  BY <1>1, <1>2, SetInduction
<1>4. \E x \in S : \A y \in S : x >= y
  BY <1>3 DEF Good
<1>5. Max(S) \in S /\ \A y \in S : Max(S) >= y
  BY <1>4 DEF Max
<1> QED BY <1>5

\* Indices of the bytes of d that are stored at x.
StoredAt(a, d, x) == {j \in 1 .. Len(d) : Plus(a, j - 1) = x}

\* A write changes the cells it stores at.
LEMMA WriteFacts ==
  ASSUME NEW m \in Memories, NEW a \in CellAddresses, NEW d \in Seq(ByteValues)
  PROVE  /\ Write(m, a, d) \in Memories
         /\ \A x \in CellAddresses :
              Write(m, a, d)[x] = IF StoredAt(a, d, x) = {} THEN m[x] ELSE d[Max(StoredAt(a, d, x))]
<1>1. Write(m, a, d) = [x \in CellAddresses |->
                          IF StoredAt(a, d, x) = {} THEN m[x] ELSE d[Max(StoredAt(a, d, x))]]
  BY DEF Write, StoredAt, Memories
<1>2. ASSUME NEW x \in CellAddresses, StoredAt(a, d, x) # {}
      PROVE  d[Max(StoredAt(a, d, x))] \in ByteValues
  <2>1. Len(d) \in Nat /\ StoredAt(a, d, x) \in SUBSET (1 .. Len(d))
    BY DEF StoredAt
  <2>2. Max(StoredAt(a, d, x)) \in 1 .. Len(d)
    BY <1>2, <2>1, MaxFacts
  <2> QED BY <2>2
<1> QED BY <1>1, <1>2 DEF Memories

\* A write of nothing changes nothing.
LEMMA WriteNothing ==
  ASSUME NEW m \in Memories, NEW a \in CellAddresses
  PROVE  Write(m, a, <<>>) = m
<1>1. \A x : StoredAt(a, <<>>, x) = {}
  BY DEF StoredAt
<1>2. <<>> \in Seq(ByteValues)
  OBVIOUS
<1>3. Write(m, a, <<>>) \in Memories /\ \A x \in CellAddresses : Write(m, a, <<>>)[x] = m[x]
  BY <1>1, <1>2, WriteFacts
<1> QED BY <1>3 DEF Memories

\* Bytes may be written one by one.
LEMMA WriteAppend ==
  ASSUME NEW m \in Memories, NEW a \in CellAddresses, NEW d \in Seq(ByteValues), NEW b \in ByteValues
  PROVE  Write(Write(m, a, d), Plus(a, Len(d)), <<b>>) = Write(m, a, Append(d, b))
<1> DEFINE p == Plus(a, Len(d))
           e == Append(d, b)
           w == Write(m, a, d)
           v == Write(w, p, <<b>>)
           u == Write(m, a, e)
<1>1. /\ Len(d) \in Nat /\ e \in Seq(ByteValues) /\ Len(e) = Len(d) + 1
      /\ \A j \in 1 .. Len(d) : e[j] = d[j]
      /\ e[Len(d) + 1] = b
  BY AppendProperties
<1>2. a \in Nat /\ p \in CellAddresses
  BY <1>1, AddressIsNat, PlusFacts
<1>3. Plus(p, 0) = p
  BY <1>2, PlusZero
<1>4. <<b>> \in Seq(ByteValues) /\ Len(<<b>>) = 1 /\ <<b>>[1] = b
  OBVIOUS
<1>5. w \in Memories /\ \A x \in CellAddresses :
         w[x] = IF StoredAt(a, d, x) = {} THEN m[x] ELSE d[Max(StoredAt(a, d, x))]
  BY WriteFacts
<1>6. v \in Memories /\ \A x \in CellAddresses :
         v[x] = IF StoredAt(p, <<b>>, x) = {} THEN w[x] ELSE <<b>>[Max(StoredAt(p, <<b>>, x))]
  BY <1>2, <1>4, <1>5, WriteFacts
<1>7. u \in Memories /\ \A x \in CellAddresses :
         u[x] = IF StoredAt(a, e, x) = {} THEN m[x] ELSE e[Max(StoredAt(a, e, x))]
  BY <1>1, WriteFacts
<1> HIDE DEF w, v, u, e, p
<1>8. ASSUME NEW x \in CellAddresses PROVE v[x] = u[x]
  <2>1. CASE x = p
    <3>1. StoredAt(p, <<b>>, x) = {1}
      <4>1. \A j \in 1 .. 1 : j - 1 = 0
        OBVIOUS
      <4> QED BY <1>3, <1>4, <2>1, <4>1 DEF StoredAt
    <3>2. Max({1}) = 1
      BY DEF Max
    <3>3. v[x] = b
      BY <1>4, <1>6, <3>1, <3>2
    <3>4. Len(e) \in StoredAt(a, e, x) /\ StoredAt(a, e, x) \in SUBSET (1 .. Len(e))
      <4>1. Len(e) \in 1 .. Len(e) /\ Len(e) - 1 = Len(d)
        BY <1>1
      <4> QED BY <2>1, <4>1 DEF StoredAt, p
    <3>5. Max(StoredAt(a, e, x)) = Len(e)
      <4>1. /\ Max(StoredAt(a, e, x)) \in StoredAt(a, e, x)
            /\ \A y \in StoredAt(a, e, x) : y <= Max(StoredAt(a, e, x))
        <5>1. Len(e) \in Nat
          BY <1>1
        <5>2. StoredAt(a, e, x) # {}
          BY <3>4
        <5> QED BY <3>4, <5>1, <5>2, MaxFacts
      <4> QED BY <1>1, <3>4, <4>1
    <3> QED BY <1>1, <1>7, <3>3, <3>4, <3>5
  <2>2. CASE x # p
    <3>1. StoredAt(p, <<b>>, x) = {}
      <4>1. \A j \in 1 .. 1 : j - 1 = 0
        OBVIOUS
      <4> QED BY <1>3, <1>4, <2>2, <4>1 DEF StoredAt
    <3>2. StoredAt(a, e, x) = StoredAt(a, d, x)
      <4>1. Plus(a, (Len(d) + 1) - 1) = p
        <5>1. (Len(d) + 1) - 1 = Len(d)
          BY <1>1
        <5> QED BY <5>1 DEF p
      <4>2. \A j : j \in 1 .. Len(e) <=> j \in 1 .. Len(d) \/ j = Len(d) + 1
        BY <1>1
      <4> QED BY <2>2, <4>1, <4>2 DEF StoredAt
    <3>3. StoredAt(a, d, x) # {} => Max(StoredAt(a, d, x)) \in 1 .. Len(d)
      <4>1. StoredAt(a, d, x) \in SUBSET (1 .. Len(d))
        BY DEF StoredAt
      <4> QED BY <1>1, <4>1, MaxFacts
    <3> QED BY <1>1, <1>5, <1>6, <1>7, <3>1, <3>2, <3>3
  <2> QED BY <2>1, <2>2
<1>9. v = u
  BY <1>6, <1>7, <1>8 DEF Memories
<1> QED BY <1>9 DEF v, w, u, p, e

\* What is read is as long as asked.
LEMMA ContentsFacts ==
  ASSUME NEW m \in Memories, NEW a \in CellAddresses, NEW n \in Nat
  PROVE  /\ Contents(m, a, n) \in Seq(ByteValues) /\ Len(Contents(m, a, n)) = n
         /\ \A j \in 1 .. n : Contents(m, a, n)[j] = m[Plus(a, j - 1)]
<1>1. ASSUME NEW j \in 1 .. n PROVE m[Plus(a, j - 1)] \in ByteValues
  <2>1. j - 1 \in Nat /\ a \in Nat
    BY AddressIsNat
  <2>2. Plus(a, j - 1) \in CellAddresses
    BY <2>1, PlusFacts
  <2> QED BY <2>2 DEF Memories
<1> QED BY <1>1 DEF Contents

---------------------------------------------------------------------------
(* The loop keeps its place.                                               *)

\* A batch that fits in a packet is received whole, so the bytes to be served
\* are either all in recvbuf or all on the way to it.
LoopInv ==
  /\ pending \in Seq(WellFormed)
  /\ i \in Nat /\ nbytes \in Nat /\ i <= nbytes /\ nbytes <= PacketSize
  /\ recvbuf \in [0 .. BufferSize - 1 -> Nat]
  /\ stream \in Seq(Nat) /\ Len(stream) <= PacketSize
  /\ stream # <<>> => i = nbytes /\ stream = Bytes(pending)
  /\ stream = <<>> => Received(i, nbytes - i) = Bytes(pending)

\* A piece of recvbuf is a sequence of bytes.
LEMMA ReceivedFacts ==
  ASSUME LoopInv, NEW first \in Nat, NEW n \in Nat, first + n <= nbytes
  PROVE  /\ Received(first, n) \in Seq(Nat) /\ Len(Received(first, n)) = n
         /\ \A k \in 1 .. n : Received(first, n)[k] = recvbuf[first + k - 1]
<1>1. PacketSize \in Nat /\ BufferSize \in Nat /\ PacketSize <= BufferSize
  BY LoopAssumption
<1>2. ASSUME NEW k \in 1 .. n PROVE recvbuf[first + k - 1] \in Nat
  <2>1. first + k - 1 \in 0 .. BufferSize - 1
    BY <1>1 DEF LoopInv
  <2> QED BY <2>1 DEF LoopInv
<1> QED BY <1>2 DEF Received

\* At the beginning of a pass, recvbuf holds the request to be served and,
\* behind it, the others.
LEMMA RequestInPlace ==
  ASSUME LoopInv, i < nbytes
  PROVE  /\ stream = <<>> /\ pending # <<>> /\ Head(pending) \in WellFormed
         /\ i + Size(Head(pending)) <= nbytes
         /\ Received(i, Size(Head(pending))) = Encode(Head(pending))
         /\ \A k \in 1 .. Size(Head(pending)) : recvbuf[i + k - 1] = Encode(Head(pending))[k]
         /\ Tail(pending) \in Seq(WellFormed)
         /\ Received(i + Size(Head(pending)), nbytes - (i + Size(Head(pending))))
              = Bytes(Tail(pending))
<1> DEFINE r == Head(pending)
           e == Encode(r)
           n == Size(r)
           rest == Bytes(Tail(pending))
           m == nbytes - i
           w == Received(i, m)
<1>1. stream = <<>> /\ w = Bytes(pending) /\ pending \in Seq(WellFormed)
  BY DEF LoopInv
<1>2. /\ i \in Nat /\ nbytes \in Nat /\ m \in Nat /\ m # 0
      /\ i + m <= nbytes /\ i + m = nbytes
  BY DEF LoopInv
<1>3. w \in Seq(Nat) /\ Len(w) = m /\ \A k \in 1 .. m : w[k] = recvbuf[i + k - 1]
  BY <1>2, ReceivedFacts
<1>4. pending # <<>>
  <2>1. w # <<>>
    BY <1>2, <1>3
  <2> QED BY <1>1, <2>1, BytesFacts
<1>5. r \in WellFormed /\ Tail(pending) \in Seq(WellFormed) /\ rest \in Seq(Nat) /\ w = e \o rest
  BY <1>1, <1>4, BytesFacts
<1>6. e \in Seq(Nat) /\ Len(e) = n /\ n \in Nat
  BY <1>5, EncodeFacts
<1> HIDE DEF r, e, n, rest, w, m
<1>7. /\ m = n + Len(rest) /\ Len(rest) \in Nat
      /\ \A k \in 1 .. n : w[k] = e[k]
      /\ \A k \in 1 .. Len(rest) : w[n + k] = rest[k]
  <2>1. Len(e \o rest) = Len(e) + Len(rest) /\ Len(rest) \in Nat
    <3>1. e \in Seq(Nat) /\ rest \in Seq(Nat)
      BY <1>5, <1>6
    <3> QED BY <3>1
  <2>2. \A k \in 1 .. Len(e) : (e \o rest)[k] = e[k]
    BY <1>5, <1>6
  <2>3. \A k \in 1 .. Len(rest) : (e \o rest)[Len(e) + k] = rest[k]
    BY <1>5, <1>6
  <2> QED BY <1>3, <1>5, <1>6, <2>1, <2>2, <2>3
<1> DEFINE a == Received(i, n)
           j == i + n
           l == nbytes - j
           b == Received(j, l)
<1>8. j \in Nat /\ j <= nbytes /\ l = Len(rest) /\ l \in Nat /\ j + l <= nbytes /\ i + n <= nbytes
  BY <1>2, <1>6, <1>7
<1>9. ASSUME NEW k \in 1 .. n PROVE recvbuf[i + k - 1] = e[k]
  <2>1. k \in 1 .. m
    BY <1>6, <1>7
  <2> QED BY <1>3, <1>7, <2>1
<1>10. a = e
  <2>1. a \in Seq(Nat) /\ Len(a) = n /\ \A k \in 1 .. n : a[k] = recvbuf[i + k - 1]
    BY <1>2, <1>6, <1>8, ReceivedFacts
  <2> HIDE DEF a
  <2>2. \A k \in 1 .. Len(a) : a[k] = e[k]
    BY <1>9, <2>1
  <2> QED BY <1>6, <2>1, <2>2, SeqEqual
<1>11. b = rest
  <2>1. b \in Seq(Nat) /\ Len(b) = l /\ \A k \in 1 .. l : b[k] = recvbuf[j + k - 1]
    BY <1>8, ReceivedFacts
  <2> HIDE DEF b, l
  <2>2. ASSUME NEW k \in 1 .. Len(b) PROVE b[k] = rest[k]
    <3>1. n + k \in 1 .. m /\ k \in 1 .. Len(rest) /\ i + (n + k) - 1 = j + k - 1
      BY <1>2, <1>6, <1>7, <1>8, <2>1
    <3>2. w[n + k] = recvbuf[i + (n + k) - 1]
      BY <1>3, <3>1
    <3> QED BY <1>7, <2>1, <3>1, <3>2
  <2> QED BY <1>5, <1>8, <2>1, <2>2, SeqEqual
<1> QED BY <1>1, <1>4, <1>5, <1>8, <1>9, <1>10, <1>11 DEF r, e, n, rest, m

\* A pass takes the request it serves from the bytes and from the list.
LEMMA PassKeeps ==
  ASSUME LoopInv, NEW sent, Pass(sent, Size(Head(pending)))
  PROVE  /\ LoopInv' /\ pending # <<>> /\ pending' = Tail(pending)
         /\ replies' = replies \o sent
<1> DEFINE n == Size(Head(pending))
<1>1. i < nbytes /\ i' = i + n /\ replies' = replies \o sent
  BY DEF Pass
<1>2. /\ stream = <<>> /\ pending # <<>> /\ Head(pending) \in WellFormed /\ i + n <= nbytes
      /\ Tail(pending) \in Seq(WellFormed)
      /\ Received(i + n, nbytes - (i + n)) = Bytes(Tail(pending))
  BY <1>1, RequestInPlace
<1>3. n \in Nat
  BY <1>2, EncodeFacts
<1> HIDE DEF n
<1>4. pending' = Tail(pending) /\ UNCHANGED <<stream, recvbuf, nbytes>>
  BY <1>2 DEF Pass
<1>5. Received(i, nbytes - i)' = Received(i + n, nbytes - (i + n)) /\ Bytes(pending)' = Bytes(Tail(pending))
  BY <1>1, <1>4 DEF Received, Bytes
<1>6. /\ pending' \in Seq(WellFormed) /\ i' \in Nat /\ i' <= nbytes'
      /\ Received(i, nbytes - i)' = Bytes(pending)' /\ stream' = <<>>
  BY <1>1, <1>2, <1>3, <1>4, <1>5 DEF LoopInv
<1>7. /\ nbytes' \in Nat /\ nbytes' <= PacketSize /\ recvbuf' \in [0 .. BufferSize - 1 -> Nat]
      /\ stream' \in Seq(Nat) /\ Len(stream') <= PacketSize
  BY <1>4 DEF LoopInv
<1> QED BY <1>1, <1>2, <1>4, <1>6, <1>7 DEF LoopInv

\* The arguments of the request to be served are where main.c reads them.
LEMMA Arguments ==
  ASSUME LoopInv, i < nbytes
  PROVE  /\ cmd = Head(pending).cmd
         /\ cmd \in WithAddress => addr = Head(pending).addr
         /\ cmd = CMD_MEM_WR => Head(pending).data = Received(i + 3, 1)
         /\ cmd = CMD_MEM_WRN => count = Len(Head(pending).data) /\ count \in Nat
         /\ cmd = CMD_MEM_RDN => count = Head(pending).n /\ count \in Nat
<1> DEFINE r == Head(pending)
           e == Encode(r)
           n == Size(r)
<1>1. /\ r \in WellFormed /\ i + n <= nbytes
      /\ \A k \in 1 .. n : recvbuf[i + k - 1] = e[k]
  BY RequestInPlace
<1>2. /\ n \in Nat \ {0} /\ e[1] = r.cmd
      /\ r.cmd \in WithAddress => AddressOf(e[2], e[3]) = r.addr
      /\ r.cmd = CMD_MEM_WR => r.data = <<e[4]>>
      /\ r.cmd = CMD_MEM_WRN => Len(r.data) \in Nat /\ e[4] = Len(r.data)
      /\ r.cmd = CMD_MEM_RDN => r.n \in Nat /\ e[4] = r.n
  BY <1>1, EncodeFacts
<1>3. i \in Nat
  BY DEF LoopInv
<1> HIDE DEF e
<1>4. cmd = r.cmd
  <2>1. 1 \in 1 .. n /\ i + 1 - 1 = i
    BY <1>2, <1>3
  <2>2. recvbuf[i + 1 - 1] = e[1]
    BY <1>1, <2>1
  <2> QED BY <1>2, <2>1, <2>2 DEF cmd
<1>5. ASSUME cmd \in WithAddress PROVE addr = r.addr
  <2>1. n >= 3
    BY <1>2, <1>4, <1>5, Codes DEF Size, WithAddress
  <2> HIDE DEF n
  <2>2. 2 \in 1 .. n /\ 3 \in 1 .. n /\ i + 2 - 1 = i + 1 /\ i + 3 - 1 = i + 2
    BY <1>2, <1>3, <2>1
  <2>3. recvbuf[i + 2 - 1] = e[2] /\ recvbuf[i + 3 - 1] = e[3]
    BY <1>1, <2>2
  <2> QED BY <1>2, <1>4, <1>5, <2>2, <2>3 DEF addr
<1>6. ASSUME cmd \in {CMD_MEM_WR, CMD_MEM_WRN, CMD_MEM_RDN} PROVE recvbuf[i + 3] = e[4]
  <2>1. n >= 4
    BY <1>2, <1>4, <1>6, Codes DEF Size
  <2> HIDE DEF n
  <2>2. 4 \in 1 .. n /\ i + 4 - 1 = i + 3
    BY <1>2, <1>3, <2>1
  <2>3. recvbuf[i + 4 - 1] = e[4]
    BY <1>1, <2>2
  <2> QED BY <2>2, <2>3
<1>7. Received(i + 3, 1) = <<recvbuf[i + 3]>>
  <2>1. i + 3 + 1 - 1 = i + 3
    BY <1>3
  <2> QED BY <2>1 DEF Received
<1> QED BY <1>2, <1>4, <1>5, <1>6, <1>7 DEF count
\* The bytes to store are stored as bytes.
LEMMA StoredBytes ==
  ASSUME LoopInv, i < nbytes
  PROVE  /\ cmd \in WithAddress => addr \in CellAddresses
         /\ cmd = CMD_MEM_WR => Received(i + 3, 1) \in Seq(ByteValues)
         /\ cmd = CMD_MEM_WRN => Received(i + 3, count) \in Seq(ByteValues)
<1> DEFINE r == Head(pending)
           e == Encode(r)
<1>1. /\ r \in WellFormed /\ i \in Nat
      /\ \A k \in 1 .. Size(r) : recvbuf[i + k - 1] = e[k]
  BY RequestInPlace DEF LoopInv
<1>2. /\ cmd = r.cmd
      /\ cmd \in WithAddress => addr = r.addr
      /\ cmd = CMD_MEM_WR => r.data = Received(i + 3, 1)
      /\ cmd = CMD_MEM_WRN => count = Len(r.data) /\ count \in Nat
  BY Arguments
<1>3. /\ r.cmd \in WithAddress => r.addr \in CellAddresses
      /\ r.cmd = CMD_MEM_WR => r.data \in Seq(ByteValues)
      /\ r.cmd = CMD_MEM_WRN => \A k \in 1 .. Len(r.data) : e[3 + k] \in ByteValues
  BY <1>1, DataFacts
<1>4. r.cmd = CMD_MEM_WRN => Size(r) = 4 + Len(r.data)
  BY Codes DEF Size
<1> HIDE DEF r, e
<1>5. ASSUME cmd = CMD_MEM_WRN PROVE Received(i + 3, count) \in Seq(ByteValues)
  <2>1. ASSUME NEW k \in 1 .. count PROVE recvbuf[i + 3 + k - 1] \in ByteValues
    <3>1. 3 + k \in 1 .. Size(r) /\ i + (3 + k) - 1 = i + 3 + k - 1 /\ k \in 1 .. Len(r.data)
      BY <1>1, <1>2, <1>4, <1>5
    <3>2. recvbuf[i + (3 + k) - 1] = e[3 + k]
      BY <1>1, <3>1
    <3>3. e[3 + k] \in ByteValues
      BY <1>2, <1>3, <1>5, <3>1
    <3> QED BY <3>1, <3>2, <3>3
  <2> QED BY <1>2, <1>5, <2>1 DEF Received
<1> QED BY <1>2, <1>3, <1>5

---------------------------------------------------------------------------
(* The loop and the bus.                                                   *)

Regimes == {"free", "taken", "raw"}

\* Commands that pull a line down.
SetsLow(c) == ~Batch(c) /\ Subcommand(c) = SUBCMD_SET_LO

\* The strobes of a store.
Storing == {BUS_MREQ, BUS_WR}

\* As long as no pin has been used by itself the strobes are high between
\* requests and RESET is an output, and from an acquire to a release the board
\* has the bus and the Z80 is in reset.
BusInv ==
  /\ mem \in Memories
  /\ regime \in Regimes
  /\ regime # "raw" => Strobes \subseteq high /\ BUS_RESET \in output
  /\ regime = "taken" => Held

\* The lines are different.
LEMMA LineNumbers ==
  /\ BUS_MREQ # BUS_WR /\ Storing \subseteq Strobes
  /\ BUS_RESET \notin BUS_A \cup Strobes
  /\ Lines = BUS_A \cup Strobes \cup {BUS_RESET} /\ Controls = Strobes \cup {BUS_RESET}
BY DEF Storing, Strobes, Lines, Controls, BUS_A, BUS_MREQ, BUS_RD, BUS_WR, BUS_RESET

\* What a command makes of the use of the bus.
LEMMA UseFacts ==
  ASSUME NEW g \in Regimes, NEW c
  PROVE  /\ Use(g, c) \in Regimes
         /\ g = "raw" => Use(g, c) = "raw"
         /\ UsesPin(c) => Use(g, c) = "raw"
         /\ ~UsesPin(c) /\ g # "raw" => Use(g, c) # "raw"
         /\ UsesMemory(c) => ~UsesPin(c) /\ Use(g, c) = g
         /\ ~UsesPin(c) /\ c \notin {CMD_ACQUIRE, CMD_RELEASE} => Use(g, c) = g
         /\ c = CMD_ACQUIRE /\ g # "raw" => Use(g, c) = "taken"
         /\ c = CMD_RELEASE => Use(g, c) # "taken"
<1>1. UsesMemory(c) => ~UsesPin(c) /\ c \notin {CMD_ACQUIRE, CMD_RELEASE}
  BY DEF UsesMemory, UsesPin, Batch, CMD_MEM_WR, CMD_MEM_RD, CMD_MEM_WRN, CMD_MEM_RDN,
         CMD_ACQUIRE, CMD_RELEASE
<1>2. ~UsesPin(CMD_ACQUIRE) /\ ~UsesPin(CMD_RELEASE) /\ CMD_ACQUIRE # CMD_RELEASE
  BY DEF UsesPin, Batch, CMD_ACQUIRE, CMD_RELEASE
<1> QED BY <1>1, <1>2 DEF Use, Regimes

\* What is stored astray are bytes in cells.
LEMMA AstrayFacts ==
  ASSUME mem \in Memories
  PROVE  mem \in Astray /\ Astray \subseteq Memories
<1>1. StrayCells \subseteq CellAddresses /\ StrayBytes \subseteq ByteValues
  BY LoopAssumption
<1>2. ASSUME NEW a \in StrayCells, NEW b \in StrayBytes PROVE [mem EXCEPT ![a] = b] \in Memories
  BY <1>1 DEF Memories
<1> QED BY <1>2 DEF Astray

\* Pins that are set leave the memory alone while a strobe of a store is high.
LEMMA PinStep ==
  ASSUME mem \in Memories, NEW o, NEW h, SetPins(o, h)
  PROVE  /\ output' = o /\ high' = h /\ mem' \in Memories
         /\ Quiet /\ Storing \cap h # {} => mem' = mem
<1>1. output' = o /\ high' = h /\ mem' \in IF Quiet /\ Quiet' THEN {mem} ELSE Astray
  BY DEF SetPins
<1>2. Quiet' <=> Storing \cap h # {}
  BY <1>1 DEF Quiet, Storing
<1> QED BY <1>1, <1>2, AstrayFacts

\* A pass of the loop leaves the bus as a request of its kind has to.
LEMMA BusStep ==
  ASSUME LoopInv, BusInv, Loop
  PROVE  /\ BusInv' /\ regime' = Use(regime, cmd)
         /\ Storing \subseteq high /\ ~SetsLow(cmd) => Storing \subseteq high'
         /\ Storing \subseteq high /\ ~UsesMemory(cmd) => mem' = mem
<1> USE LineNumbers
<1> DEFINE g == Use(regime, cmd)
           Goal == /\ BusInv' /\ regime' = g
                   /\ Storing \subseteq high /\ ~SetsLow(cmd) => Storing \subseteq high'
                   /\ Storing \subseteq high /\ ~UsesMemory(cmd) => mem' = mem
<1>0. i < nbytes /\ mem \in Memories /\ regime \in Regimes
  BY DEF Loop, BusInv
<1>1. regime' = g
  BY DEF Loop, version, mem_wr, mem_rd, mem_wrn, mem_rdn, acquire, release, echo, set_hi, set_lo,
         get, Pass
<1>2. /\ g \in Regimes
      /\ regime = "raw" => g = "raw"
      /\ UsesPin(cmd) => g = "raw"
      /\ UsesMemory(cmd) => g = regime
      /\ ~UsesPin(cmd) /\ cmd \notin {CMD_ACQUIRE, CMD_RELEASE} => g = regime
      /\ cmd = CMD_RELEASE => g # "taken"
  BY <1>0, UseFacts
<1> HIDE DEF g
<1>3. ASSUME NEW o, NEW h, SetPins(o, h),
             g # "raw" => Strobes \subseteq h /\ BUS_RESET \in o,
             g = "taken" => Lines \subseteq o /\ BUS_RESET \notin h,
             Storing \subseteq high => Storing \cap h # {},
             Storing \subseteq high /\ ~SetsLow(cmd) => Storing \subseteq h
      PROVE  Goal
  <2>1. /\ output' = o /\ high' = h /\ mem' \in Memories
        /\ Quiet /\ Storing \cap h # {} => mem' = mem
    BY <1>0, <1>3, PinStep
  <2>2. Storing \subseteq high => Quiet
    BY DEF Quiet, Storing
  <2>3. g = "taken" => Held'
    <3>1. ASSUME g = "taken" PROVE Strobes \subseteq h /\ Lines \subseteq o /\ BUS_RESET \notin h
      BY <1>3, <3>1
    <3>2. ASSUME Strobes \subseteq h PROVE {BUS_MREQ, BUS_WR} \cap h # {}
      BY <3>2 DEF Storing
    <3>3. Lines' = Lines
      BY DEF Lines, Controls, Strobes
    <3> QED BY <2>1, <3>1, <3>2, <3>3 DEF Held, Quiet
  <2>4. BusInv'
    BY <1>1, <1>2, <1>3, <2>1, <2>3 DEF BusInv
  <2> QED BY <1>1, <1>3, <2>1, <2>2, <2>4
<1>4. ASSUME NEW n, Called(n), mem' \in Memories, UsesMemory(cmd) PROVE Goal
  <2>1. output' = output /\ high \subseteq high' /\ high' \subseteq high \cup Strobes /\ g = regime
    BY <1>2, <1>4 DEF Called
  <2>2. regime = "taken" => Held'
    <3>1. Lines' = Lines
      BY DEF Lines, Controls, Strobes
    <3>2. ASSUME regime = "taken" PROVE Lines \subseteq output /\ BUS_RESET \notin high /\ {BUS_MREQ, BUS_WR} \cap high # {}
      BY <3>2 DEF BusInv, Held, Quiet
    <3> QED BY <2>1, <3>1, <3>2 DEF Held, Quiet
  <2>3. BusInv'
    BY <1>1, <1>2, <1>4, <2>1, <2>2 DEF BusInv
  <2> QED BY <1>1, <1>4, <2>1, <2>3
<1>5. /\ regime # "raw" => Strobes \subseteq high /\ BUS_RESET \in output
      /\ regime = "taken" => Lines \subseteq output /\ BUS_RESET \notin high
      /\ Storing \subseteq high => Storing \cap high # {}
  BY DEF BusInv, Held, Storing
<1>6. ASSUME SetPins(output, high), g = regime PROVE Goal
  BY <1>3, <1>5, <1>6
<1> HIDE DEF Goal
<1>7. ASSUME version PROVE Goal
  <2>1. SetPins(output, high) /\ ~UsesPin(cmd) /\ cmd \notin {CMD_ACQUIRE, CMD_RELEASE}
    BY <1>7 DEF version, UsesPin, Batch, CMD_VERSION, CMD_ACQUIRE, CMD_RELEASE
  <2> QED BY <1>2, <1>6, <2>1
<1>8. ASSUME mem_wr PROVE Goal
  <2>1. UsesMemory(cmd) /\ cmd = CMD_MEM_WR /\ Called(1)
    BY <1>8 DEF mem_wr, bc80_write_mem, UsesMemory
  <2>2. addr \in CellAddresses /\ Received(i + 3, 1) \in Seq(ByteValues)
    BY <1>0, <2>1, StoredBytes DEF WithAddress
  <2>3. Write(mem, addr, Received(i + 3, 1)) \in Memories
    BY <1>0, <2>2, WriteFacts
  <2>4. mem' \in {Write(mem, addr, Received(i + 3, 1))} \cup Astray
    BY <1>8 DEF mem_wr, bc80_write_mem
  <2> QED BY <1>0, <1>4, <2>1, <2>3, <2>4, AstrayFacts
<1>9. ASSUME mem_rd PROVE Goal
  <2>1. UsesMemory(cmd) /\ Called(1) /\ mem' \in Astray \cup {mem}
    BY <1>9 DEF mem_rd, bc80_read_mem, UsesMemory
  <2> QED BY <1>0, <1>4, <2>1, AstrayFacts
<1>10. ASSUME mem_wrn PROVE Goal
  <2>1. UsesMemory(cmd) /\ cmd = CMD_MEM_WRN /\ Called(count)
    BY <1>10 DEF mem_wrn, bc80_write_mem, UsesMemory
  <2>2. addr \in CellAddresses /\ Received(i + 3, count) \in Seq(ByteValues)
    BY <1>0, <2>1, StoredBytes DEF WithAddress
  <2>3. Write(mem, addr, Received(i + 3, count)) \in Memories
    BY <1>0, <2>2, WriteFacts
  <2>4. mem' \in {Write(mem, addr, Received(i + 3, count))} \cup Astray
    BY <1>10 DEF mem_wrn, bc80_write_mem
  <2> QED BY <1>0, <1>4, <2>1, <2>3, <2>4, AstrayFacts
<1>11. ASSUME mem_rdn PROVE Goal
  <2>1. UsesMemory(cmd) /\ Called(count) /\ mem' \in Astray \cup {mem}
    BY <1>11 DEF mem_rdn, bc80_read_mem, UsesMemory
  <2> QED BY <1>0, <1>4, <2>1, AstrayFacts
<1>12. ASSUME acquire PROVE Goal
  <2> DEFINE o == output \cup BUS_A \cup Strobes
             h == (high \ {BUS_RESET}) \cup Strobes
  <2>1. SetPins(o, h)
    BY <1>12 DEF acquire, bc80_bus_acquire
  <2>2. Strobes \subseteq h /\ Storing \subseteq h /\ BUS_RESET \notin h /\ Storing \cap h # {}
    BY DEF Storing
  <2>3. g # "raw" => BUS_RESET \in o /\ Lines \subseteq o
    BY <1>2, <1>5
  <2> HIDE DEF o, h
  <2> QED BY <1>3, <2>1, <2>2, <2>3
<1>13. ASSUME release PROVE Goal
  <2> DEFINE o == output \ (BUS_A \cup Strobes)
             h == high \cup Controls
  <2>1. SetPins(o, h) /\ cmd = CMD_RELEASE
    BY <1>13 DEF release, bc80_bus_release
  <2>2. Strobes \subseteq h /\ Storing \subseteq h /\ Storing \cap h # {}
    BY DEF Storing
  <2>3. g # "raw" => BUS_RESET \in o
    BY <1>2, <1>5
  <2>4. g # "taken"
    BY <1>2, <2>1
  <2> HIDE DEF o, h
  <2> QED BY <1>3, <2>1, <2>2, <2>3, <2>4
<1>14. ASSUME echo PROVE Goal
  <2>1. SetPins(output, high) /\ ~UsesPin(cmd) /\ cmd \notin {CMD_ACQUIRE, CMD_RELEASE}
    BY <1>14 DEF echo, UsesPin, Batch, CMD_VERSION, CMD_ACQUIRE, CMD_RELEASE
  <2> QED BY <1>2, <1>6, <2>1
<1>15. ASSUME set_hi PROVE Goal
  <2> DEFINE o == output \cup line
             h == high \cup (line \cap Controls)
  <2>1. SetPins(o, h) /\ UsesPin(cmd)
    BY <1>15 DEF set_hi, UsesPin, SUBCMD_SET_HI, NOTHING
  <2>2. high \subseteq h
    OBVIOUS
  <2>3. Storing \subseteq high => Storing \cap h # {} /\ Storing \subseteq h
    BY <1>5, <2>2
  <2> HIDE DEF o, h
  <2> QED BY <1>2, <1>3, <2>1, <2>3
<1>16. ASSUME set_lo PROVE Goal
  <2> DEFINE o == output \cup line
             h == high \ line
  <2>1. SetPins(o, h) /\ UsesPin(cmd) /\ SetsLow(cmd)
    BY <1>16 DEF set_lo, UsesPin, SetsLow, SUBCMD_SET_LO, NOTHING
  <2>2. Storing \subseteq high => Storing \cap h # {}
    BY DEF line, Storing
  <2> HIDE DEF o, h
  <2> QED BY <1>2, <1>3, <2>1, <2>2
<1>17. ASSUME get PROVE Goal
  <2> DEFINE o == output \ line
  <2>1. SetPins(o, high) /\ UsesPin(cmd)
    BY <1>17 DEF get, UsesPin, SUBCMD_GET, NOTHING
  <2> HIDE DEF o
  <2> QED BY <1>2, <1>3, <1>5, <2>1
<1>18. Goal
  BY <1>7, <1>8, <1>9, <1>10, <1>11, <1>12, <1>13, <1>14, <1>15, <1>16, <1>17 DEF Loop
<1> QED BY <1>18 DEF Goal, g

\* What is read on a bus that is held is there; else it is any byte.
LEMMA ReadFacts ==
  ASSUME BusInv, addr \in CellAddresses, NEW n \in Nat, NEW f \in Read(n)
  PROVE  f \in Found(regime, mem, addr, n)
<1>1. mem \in Memories /\ (regime = "taken" => Held)
  BY DEF BusInv
<1>2. CASE regime = "taken"
  BY <1>1, <1>2 DEF Read, Found
<1>3. CASE regime # "taken"
  <2>1. f \in [1 .. n -> ByteValues]
    <3>1. CASE Held
      <4>1. f = Contents(mem, addr, n)
        BY <3>1 DEF Read
      <4>2. /\ Contents(mem, addr, n) \in Seq(ByteValues) /\ Len(Contents(mem, addr, n)) = n
        BY <1>1, ContentsFacts
      <4> QED BY <4>1, <4>2
    <3>2. CASE ~Held
      <4>1. f \in [1 .. n -> StrayBytes] /\ StrayBytes \subseteq ByteValues
        BY <3>2, LoopAssumption DEF Read
      <4> QED BY <4>1
    <3> QED BY <3>1, <3>2
  <2> QED BY <1>3, <2>1 DEF Found
<1> QED BY <1>2, <1>3

---------------------------------------------------------------------------
(* The loop serves requests.                                               *)

\* What the board sends: the reply of dbgproto.h but for the input of a pin.
Sends(g, m, r) ==
  IF ~Batch(r.cmd) /\ Subcommand(r.cmd) = SUBCMD_GET
    THEN {<<r.cmd, 0>>, <<r.cmd, 1>>}
    ELSE Reply(g, m, r)

\* A pass of the loop takes the first request.
LEMMA LoopServes ==
  ASSUME LoopInv, Loop
  PROVE  /\ LoopInv' /\ pending # <<>> /\ Head(pending) \in WellFormed /\ pending' = Tail(pending)
         /\ cmd = Head(pending).cmd
<1> DEFINE r == Head(pending)
<1> USE Codes
<1>0. i < nbytes
  BY DEF Loop
<1>1. r \in WellFormed
  BY <1>0, RequestInPlace
<1>2. /\ cmd = r.cmd
      /\ cmd = CMD_MEM_WRN => count = Len(r.data)
  BY <1>0, Arguments
<1> HIDE DEF r
<1>3. ASSUME NEW sent, Pass(sent, Size(r))
      PROVE  LoopInv' /\ pending # <<>> /\ pending' = Tail(pending)
  BY <1>3, PassKeeps DEF r
<1>4. CASE version \/ acquire \/ release \/ echo \/ set_hi \/ set_lo \/ get
  <2>1. r.cmd \notin WithAddress
    BY <1>2, <1>4 DEF version, acquire, release, echo, set_hi, set_lo, get, UsesMemory, WithAddress,
         CMD_ACQUIRE, CMD_RELEASE, CMD_MEM_WR, CMD_MEM_RD, CMD_MEM_WRN, CMD_MEM_RDN
  <2>2. Size(r) = 1
    BY <2>1 DEF Size, WithAddress
  <2>3. \E sent : Pass(sent, 1)
    BY <1>4 DEF version, acquire, release, echo, set_hi, set_lo, get
  <2> QED BY <1>1, <1>2, <1>3, <2>2, <2>3 DEF r
<1>5. CASE mem_wr
  <2>1. Size(r) = 4 /\ \E sent : Pass(sent, 4)
    BY <1>2, <1>5 DEF mem_wr, Size
  <2> QED BY <1>1, <1>2, <1>3, <2>1 DEF r
<1>6. CASE mem_rd
  <2>1. Size(r) = 3 /\ \E sent : Pass(sent, 3)
    BY <1>2, <1>6 DEF mem_rd, Size
  <2> QED BY <1>1, <1>2, <1>3, <2>1 DEF r
<1>7. CASE mem_wrn
  <2>1. Size(r) = 4 + count /\ \E sent : Pass(sent, 4 + count)
    BY <1>2, <1>7 DEF mem_wrn, Size
  <2> QED BY <1>1, <1>2, <1>3, <2>1 DEF r
<1>8. CASE mem_rdn
  <2>1. Size(r) = 4 /\ \E sent : Pass(sent, 4)
    BY <1>2, <1>8 DEF mem_rdn, Size
  <2> QED BY <1>1, <1>2, <1>3, <2>1 DEF r
<1> QED BY <1>4, <1>5, <1>6, <1>7, <1>8 DEF Loop

\* It does to the memory what the protocol allows, and sends what it says but
\* for the input of a pin.
LEMMA LoopStep ==
  ASSUME LoopInv, BusInv, Loop
  PROVE  /\ Head(pending).cmd # CMD_MEM_WRN => mem' \in Effect(regime, mem, Head(pending))
         /\ \E s \in Sends(regime, mem, Head(pending)) : replies' = replies \o s
<1> DEFINE r == Head(pending)
<1> USE Codes
<1>0. i < nbytes /\ regime \in Regimes
  BY DEF Loop, BusInv
<1>1. r \in WellFormed /\ Received(i, Size(r)) = Encode(r)
  BY <1>0, RequestInPlace
<1>2. /\ cmd = r.cmd
      /\ cmd \in WithAddress => addr = r.addr
      /\ cmd = CMD_MEM_WR => r.data = Received(i + 3, 1)
      /\ cmd = CMD_MEM_WRN => count = Len(r.data) /\ count \in Nat
      /\ cmd = CMD_MEM_RDN => count = r.n /\ count \in Nat
  BY <1>0, Arguments
<1>3. cmd \in WithAddress => addr \in CellAddresses
  BY <1>0, StoredBytes
<1>4. /\ mem' \in Memories
      /\ Storing \subseteq high /\ ~UsesMemory(cmd) => mem' = mem
  BY BusStep DEF BusInv
<1>5. /\ regime # "raw" => Storing \subseteq high
      /\ regime = "taken" => Held
  BY LineNumbers DEF BusInv
<1> HIDE DEF r
<1> DEFINE Sent(s) == replies' = replies \o s
           Goal == /\ r.cmd # CMD_MEM_WRN => mem' \in Effect(regime, mem, r)
                   /\ \E s \in Sends(regime, mem, r) : Sent(s)
<1>6. ASSUME NEW sent, NEW n, Pass(sent, n) PROVE Sent(sent)
  BY <1>6 DEF Pass
<1>7. ASSUME ~UsesMemory(cmd) PROVE mem' \in Effect(regime, mem, r)
  <2>1. CASE regime = "raw"
    BY <1>4, <2>1 DEF Effect
  <2>2. CASE regime # "raw"
    <3>1. mem' = mem
      BY <1>4, <1>5, <1>7, <2>2
    <3> QED BY <1>2, <1>7, <2>2, <3>1 DEF Effect, UsesMemory
  <2> QED BY <2>1, <2>2
<1>8. ASSUME UsesMemory(cmd), regime # "taken" PROVE mem' \in Effect(regime, mem, r)
  BY <1>0, <1>2, <1>4, <1>8 DEF Effect, Regimes
<1> HIDE DEF Sent, Goal
<1>9. ASSUME version PROVE Goal
  <2>1. r.cmd = CMD_VERSION /\ ~UsesMemory(cmd)
    BY <1>2, <1>9 DEF version, WithAddress, UsesMemory
  <2>2. Sent(<<CMD_VERSION>> \o BOARD_VER)
    BY <1>6, <1>9 DEF version
  <2>3. Reply(regime, mem, r) = {<<CMD_VERSION>> \o BOARD_VER}
    BY <2>1 DEF Reply, WithAddress
  <2>4. Sends(regime, mem, r) = Reply(regime, mem, r)
    BY <2>1 DEF Sends
  <2>5. mem' \in Effect(regime, mem, r)
    BY <1>7, <2>1
  <2> QED BY <2>2, <2>3, <2>4, <2>5 DEF Goal
<1>10. ASSUME cmd \notin WithAddress \cup {CMD_VERSION},
              Batch(cmd) \/ Subcommand(cmd) # SUBCMD_GET, Pass(Received(i, 1), 1)
       PROVE  Goal
  <2>1. Size(r) = 1 /\ Sent(Encode(r))
    BY <1>1, <1>2, <1>6, <1>10 DEF Size, WithAddress
  <2>2. Reply(regime, mem, r) = {Encode(r)}
    BY <1>2, <1>10 DEF Reply, WithAddress
  <2>3. Sends(regime, mem, r) = Reply(regime, mem, r)
    BY <1>2, <1>10 DEF Sends
  <2>4. mem' \in Effect(regime, mem, r)
    BY <1>7, <1>10 DEF UsesMemory, WithAddress
  <2> QED BY <2>1, <2>2, <2>3, <2>4 DEF Goal
<1>11. ASSUME acquire \/ release \/ echo \/ set_hi \/ set_lo PROVE Goal
  <2>1. Pass(Received(i, 1), 1)
    BY <1>11 DEF acquire, release, echo, set_hi, set_lo
  <2>2. CASE acquire \/ release
    <3>1. cmd \notin WithAddress \cup {CMD_VERSION} /\ Batch(cmd)
      BY <2>2 DEF acquire, release, WithAddress, Batch, CMD_VERSION, CMD_ACQUIRE, CMD_RELEASE,
           CMD_MEM_WR, CMD_MEM_RD, CMD_MEM_WRN, CMD_MEM_RDN
    <3> QED BY <1>10, <2>1, <3>1
  <2>3. CASE echo
    <3>1. /\ cmd \notin WithAddress \cup {CMD_VERSION}
          /\ Batch(cmd) \/ Subcommand(cmd) # SUBCMD_GET
      BY <2>3 DEF echo, UsesMemory, WithAddress, NOTHING, SUBCMD_GET
    <3> QED BY <1>10, <2>1, <3>1
  <2>4. CASE set_hi \/ set_lo
    <3>1. ~Batch(cmd) /\ Subcommand(cmd) # SUBCMD_GET
      BY <2>4 DEF set_hi, set_lo, SUBCMD_GET, SUBCMD_SET_HI, SUBCMD_SET_LO
    <3>2. cmd \notin WithAddress \cup {CMD_VERSION}
      BY <3>1 DEF WithAddress, Batch, CMD_VERSION, CMD_MEM_WR, CMD_MEM_RD, CMD_MEM_WRN, CMD_MEM_RDN
    <3> QED BY <1>10, <2>1, <3>1, <3>2
  <2> QED BY <1>11, <2>2, <2>3, <2>4
<1>12. ASSUME mem_wr PROVE Goal
  <2>1. r.cmd = CMD_MEM_WR /\ Size(r) = 4 /\ UsesMemory(cmd)
    BY <1>2, <1>12 DEF mem_wr, Size, UsesMemory
  <2>2. Sent(Encode(r))
    BY <1>1, <1>6, <1>12, <2>1 DEF mem_wr
  <2>3. Reply(regime, mem, r) = {Encode(r)} /\ Sends(regime, mem, r) = Reply(regime, mem, r)
    BY <2>1 DEF Reply, Sends, WithAddress
  <2>4. regime = "taken" => mem' \in Effect(regime, mem, r)
    <3>1. ASSUME Held PROVE mem' = Write(mem, addr, Received(i + 3, 1))
      BY <1>12, <3>1 DEF mem_wr, bc80_write_mem
    <3>2. regime = "taken" => Effect(regime, mem, r) = {Write(mem, r.addr, r.data)}
      BY <2>1 DEF Effect
    <3> QED BY <1>2, <1>5, <2>1, <3>1, <3>2 DEF WithAddress
  <2>5. mem' \in Effect(regime, mem, r)
    BY <1>8, <2>1, <2>4
  <2> QED BY <2>2, <2>3, <2>5 DEF Goal
<1>13. ASSUME mem_wrn PROVE Goal
  <2>1. r.cmd = CMD_MEM_WRN /\ Size(r) = 4 + count
    BY <1>2, <1>13 DEF mem_wrn, Size
  <2>2. Sent(Encode(r))
    BY <1>1, <1>6, <1>13, <2>1 DEF mem_wrn
  <2>3. Reply(regime, mem, r) = {Encode(r)} /\ Sends(regime, mem, r) = Reply(regime, mem, r)
    BY <2>1 DEF Reply, Sends, WithAddress
  <2> QED BY <2>1, <2>2, <2>3 DEF Goal
<1>14. ASSUME mem_rd PROVE Goal
  <2>1. r.cmd = CMD_MEM_RD /\ Size(r) = 3 /\ UsesMemory(cmd)
    BY <1>2, <1>14 DEF mem_rd, Size, UsesMemory
  <2>2. PICK found \in Read(1) : Sent(Encode(r) \o found)
    BY <1>1, <1>6, <1>14, <2>1 DEF mem_rd
  <2>3. found \in Found(regime, mem, r.addr, 1)
    BY <1>2, <1>3, <2>1, ReadFacts DEF WithAddress
  <2>4. Encode(r) \o found \in Sends(regime, mem, r)
    BY <2>1, <2>3 DEF Reply, Sends, WithAddress
  <2>5. regime = "taken" => mem' \in Effect(regime, mem, r)
    BY <1>5, <1>14, <2>1 DEF mem_rd, bc80_read_mem, Effect
  <2>6. mem' \in Effect(regime, mem, r)
    BY <1>8, <2>1, <2>5
  <2> QED BY <2>2, <2>4, <2>6 DEF Goal
<1>15. ASSUME mem_rdn PROVE Goal
  <2>1. r.cmd = CMD_MEM_RDN /\ Size(r) = 4 /\ UsesMemory(cmd)
    BY <1>2, <1>15 DEF mem_rdn, Size, UsesMemory
  <2>2. PICK found \in Read(count) : Sent(Encode(r) \o found)
    BY <1>1, <1>6, <1>15, <2>1 DEF mem_rdn
  <2>3. found \in Found(regime, mem, r.addr, r.n)
    BY <1>2, <1>3, <2>1, ReadFacts DEF WithAddress
  <2>4. Encode(r) \o found \in Sends(regime, mem, r)
    BY <2>1, <2>3 DEF Reply, Sends, WithAddress
  <2>5. regime = "taken" => mem' \in Effect(regime, mem, r)
    BY <1>5, <1>15, <2>1 DEF mem_rdn, bc80_read_mem, Effect
  <2>6. mem' \in Effect(regime, mem, r)
    BY <1>8, <2>1, <2>5
  <2> QED BY <2>2, <2>4, <2>6 DEF Goal
<1>16. ASSUME get PROVE Goal
  <2>1. ~Batch(r.cmd) /\ Subcommand(r.cmd) = SUBCMD_GET
    BY <1>2, <1>16 DEF get
  <2>2. PICK level \in {0, 1} : Sent(<<r.cmd, level>>)
    BY <1>2, <1>6, <1>16 DEF get
  <2>3. <<r.cmd, level>> \in Sends(regime, mem, r)
    BY <2>1 DEF Sends
  <2>4. ~UsesMemory(cmd)
    BY <1>2, <2>1 DEF UsesMemory, Batch, CMD_MEM_WR, CMD_MEM_RD, CMD_MEM_WRN, CMD_MEM_RDN
  <2>5. mem' \in Effect(regime, mem, r)
    BY <1>7, <2>4
  <2> QED BY <2>2, <2>3, <2>5 DEF Goal
<1>17. Goal
  BY <1>9, <1>11, <1>12, <1>13, <1>14, <1>15, <1>16 DEF Loop
<1> QED BY <1>17 DEF Goal, r, Sent

\* A batch is sent when there is nothing left of the one before.
LEMMA SendStep ==
  ASSUME LoopInv, SendBatch, Requests \subseteq WellFormed, MaxBytes <= PacketSize
  PROVE  /\ LoopInv' /\ pending = <<>> /\ pending' \in Seq(Requests) /\ replies' = <<>>
         /\ UNCHANGED <<mem, pins>>
<1>1. MaxBatch \in Nat /\ MaxBytes \in Nat /\ PacketSize \in Nat
  BY LoopAssumption
<1>2. PICK batch \in BoundedSeq(Requests, MaxBatch) :
        Len(Bytes(batch)) \in 1 .. MaxBytes /\ pending' = batch /\ stream' = Bytes(batch)
  BY DEF SendBatch
<1>3. batch \in Seq(Requests)
  <2>1. PICK n \in 0 .. MaxBatch : batch \in [1 .. n -> Requests]
    BY <1>2 DEF BoundedSeq, SeqOf
  <2> QED BY <1>1, <2>1
<1>4. batch \in Seq(WellFormed)
  <2>1. \A k \in 1 .. Len(batch) : batch[k] \in WellFormed
    BY <1>3, ElementOfSeq
  <2> QED BY <1>3, <2>1
<1>5. /\ stream = <<>> /\ i >= nbytes /\ replies' = <<>> /\ UNCHANGED <<mem, recvbuf, nbytes, i, pins>>
  BY DEF SendBatch
<1>6. pending = <<>>
  <2>1. Received(i, nbytes - i) = Bytes(pending) /\ pending \in Seq(WellFormed)
    BY <1>5 DEF LoopInv
  <2>2. nbytes - i \in Nat /\ nbytes - i = 0 /\ i \in Nat /\ i + (nbytes - i) <= nbytes
    BY <1>5 DEF LoopInv
  <2>3. Len(Received(i, nbytes - i)) = 0
    BY <2>2, ReceivedFacts
  <2>4. ASSUME pending # <<>> PROVE FALSE
    <3> DEFINE e == Encode(Head(pending))
               rest == Bytes(Tail(pending))
    <3>1. Head(pending) \in WellFormed /\ rest \in Seq(Nat) /\ Bytes(pending) = e \o rest
      BY <2>1, <2>4, BytesFacts
    <3>2. e \in Seq(Nat) /\ Len(e) \in Nat \ {0}
      BY <3>1, EncodeFacts
    <3> HIDE DEF e, rest
    <3>3. Len(e \o rest) = Len(e) + Len(rest) /\ Len(rest) \in Nat
      BY <3>1, <3>2
    <3> QED BY <2>1, <2>3, <3>1, <3>2, <3>3
  <2> QED BY <2>4
<1>7. Bytes(pending)' = Bytes(batch)
  BY <1>2 DEF Bytes
<1>8. LoopInv'
  <2>1. Bytes(batch) \in Seq(Nat) /\ Len(Bytes(batch)) <= PacketSize /\ Bytes(batch) # <<>>
    <3>1. Bytes(batch) \in Seq(Nat)
      BY <1>4, BytesFacts
    <3> QED BY <1>1, <1>2, <3>1
  <2>2. i' = i /\ nbytes' = nbytes /\ recvbuf' = recvbuf /\ i = nbytes
    BY <1>5 DEF LoopInv
  <2> QED BY <1>2, <1>4, <1>7, <2>1, <2>2 DEF LoopInv
<1> QED BY <1>2, <1>3, <1>5, <1>6, <1>8

\* A packet brings all the bytes there are.
LEMMA ReceiveStep ==
  ASSUME LoopInv, Receive
  PROVE  LoopInv' /\ UNCHANGED <<mem, pending, replies, pins>>
<1>1. PacketSize \in Nat /\ BufferSize \in Nat /\ PacketSize <= BufferSize
  BY LoopAssumption
<1> DEFINE n == Len(stream)
<1>2. /\ stream \in Seq(Nat) /\ stream # <<>> /\ n \in Nat /\ n # 0 /\ n <= PacketSize
      /\ stream = Bytes(pending) /\ pending \in Seq(WellFormed)
      /\ recvbuf \in [0 .. BufferSize - 1 -> Nat]
  BY DEF LoopInv, Receive
<1>3. nbytes' = n
  <2>1. nbytes' = Min({PacketSize, n})
    BY DEF Receive
  <2>2. \A m \in {PacketSize, n} : (\A y \in {PacketSize, n} : m <= y) <=> m = n
    BY <1>1, <1>2
  <2> HIDE DEF n
  <2>3. Min({PacketSize, n}) = n
    BY <2>2 DEF Min
  <2> QED BY <2>1, <2>3
<1>4. /\ i' = 0 /\ UNCHANGED <<mem, pending, replies, pins>>
      /\ recvbuf' = [k \in DOMAIN recvbuf |-> IF k < nbytes' THEN stream[k + 1] ELSE recvbuf[k]]
      /\ stream' = SubSeq(stream, nbytes' + 1, Len(stream))
  BY DEF Receive
<1>5. stream' = <<>>
  BY <1>2, <1>3, <1>4
<1>6. ASSUME NEW k \in 0 .. BufferSize - 1, k < n
      PROVE  stream[k + 1] \in Nat /\ recvbuf'[k] = stream[k + 1]
  <2>1. k + 1 \in 1 .. n
    BY <1>1, <1>2, <1>6
  <2> QED BY <1>2, <1>3, <1>4, <1>6, <2>1
<1>7. recvbuf' \in [0 .. BufferSize - 1 -> Nat]
  <2>1. recvbuf' = [k \in 0 .. BufferSize - 1 |-> IF k < n THEN stream[k + 1] ELSE recvbuf[k]]
    BY <1>2, <1>3, <1>4
  <2>2. \A k \in 0 .. BufferSize - 1 : (IF k < n THEN stream[k + 1] ELSE recvbuf[k]) \in Nat
    BY <1>2, <1>6
  <2> QED BY <2>1, <2>2
<1>8. Received(i, nbytes - i)' = stream
  <2>1. Received(i, nbytes - i)' = [k \in 1 .. n |-> recvbuf'[k - 1]]
    <3>1. n - 0 = n /\ \A k \in 1 .. n : 0 + k - 1 = k - 1
      BY <1>2
    <3> QED BY <1>3, <1>4, <3>1 DEF Received
  <2>2. ASSUME NEW k \in 1 .. n PROVE recvbuf'[k - 1] = stream[k]
    <3>1. k - 1 \in 0 .. BufferSize - 1 /\ k - 1 < n /\ (k - 1) + 1 = k
      BY <1>1, <1>2
    <3> QED BY <1>6, <3>1
  <2>3. stream = [k \in 1 .. n |-> stream[k]]
    BY <1>2
  <2> QED BY <2>1, <2>2, <2>3
<1>9. Bytes(pending)' = Bytes(pending)
  BY <1>4 DEF Bytes
<1>10. <<>> \in Seq(Nat) /\ Len(<<>>) <= PacketSize
  BY <1>1, EmptySeq
<1> QED BY <1>2, <1>3, <1>4, <1>5, <1>7, <1>8, <1>9, <1>10 DEF LoopInv

\* It holds in the beginning.
LEMMA LoopInvInit == Init => LoopInv
<1> SUFFICES ASSUME Init PROVE LoopInv
  OBVIOUS
<1>1. PacketSize \in Nat /\ BufferSize \in Nat
  BY LoopAssumption
<1>2. /\ pending = <<>> /\ stream = <<>> /\ nbytes = 0 /\ i = 0
      /\ recvbuf \in [0 .. BufferSize - 1 -> Nat]
  BY DEF Init
<1>3. Received(i, nbytes - i) = <<>>
  BY <1>2 DEF Received
<1>4. pending \in Seq(WellFormed) /\ stream \in Seq(Nat) /\ Len(stream) = 0
  BY <1>2, EmptySeq
<1>5. Bytes(pending) = <<>>
  BY <1>2, <1>4, BytesFacts
<1> QED BY <1>1, <1>2, <1>3, <1>4, <1>5 DEF LoopInv

\* It is inductive.
LEMMA LoopInvNext ==
  ASSUME LoopInv, [Next]_vars, Requests \subseteq WellFormed, MaxBytes <= PacketSize
  PROVE  LoopInv'
<1>1. CASE SendBatch
  BY <1>1, SendStep
<1>2. CASE Receive
  BY <1>2, ReceiveStep
<1>3. CASE Loop
  BY <1>3, LoopServes
<1>4. CASE UNCHANGED vars
  <2>1. UNCHANGED <<pending, stream, recvbuf, nbytes, i>>
    BY <1>4 DEF vars
  <2>2. Received(i, nbytes - i)' = Received(i, nbytes - i) /\ Bytes(pending)' = Bytes(pending)
    BY <2>1 DEF Received, Bytes
  <2> QED BY <2>1, <2>2 DEF LoopInv
<1> QED BY <1>1, <1>2, <1>3, <1>4 DEF Next

\* It says that the loop is in step with what was sent.
LEMMA LoopInvInSync == LoopInv => InSync
<1> SUFFICES ASSUME LoopInv PROVE InSync
  OBVIOUS
<1> DEFINE w == Received(i, nbytes - i)
<1>1. i <= nbytes /\ nbytes - i \in Nat /\ i \in Nat /\ i + (nbytes - i) <= nbytes /\ stream \in Seq(Nat)
  BY DEF LoopInv
<1>2. w \in Seq(Nat) /\ Len(w) = nbytes - i
  BY <1>1, ReceivedFacts
<1>3. CASE stream = <<>>
  <2>1. w = Bytes(pending)
    BY <1>3 DEF LoopInv
  <2> HIDE DEF w
  <2>2. w \o <<>> = w
    BY <1>2
  <2> QED BY <1>1, <1>3, <2>1, <2>2 DEF InSync, w
<1>4. CASE stream # <<>>
  <2>1. i = nbytes /\ stream = Bytes(pending)
    BY <1>4 DEF LoopInv
  <2> HIDE DEF w
  <2>2. w = <<>>
    BY <1>1, <1>2, <2>1, EmptySeq
  <2>3. <<>> \o stream = stream
    BY <1>1
  <2> QED BY <1>1, <2>1, <2>2, <2>3 DEF InSync, w
<1> QED BY <1>3, <1>4

\* As long as what is sent at a time fits in a packet, the loop never takes an
\* argument for a command nor the other way round, whatever the requests.
THEOREM KeepsItsPlace ==
  ASSUME Requests \subseteq WellFormed, MaxBytes <= PacketSize
  PROVE  Spec => []InSync
<1>1. LoopInv /\ [Next]_vars => LoopInv'
  BY LoopInvNext
<1> QED BY <1>1, LoopInvInit, LoopInvInSync, PTL DEF Spec
---------------------------------------------------------------------------
(* The loop implements the protocol.                                       *)

\* The operators of the protocol are those of the loop.
LEMMA SameRequests ==
  ASSUME NEW g, NEW m, NEW r, NEW c
  PROVE  /\ Protocol!Effect(g, m, r) = Effect(g, m, r)
         /\ Protocol!Reply(g, m, r) = Reply(g, m, r)
         /\ Protocol!Use(g, c) = Use(g, c)
<1> USE DEF Protocol!CMD_MEM_WR, CMD_MEM_WR, Protocol!CMD_MEM_WRN, CMD_MEM_WRN,
            Protocol!CMD_MEM_RD, CMD_MEM_RD, Protocol!CMD_MEM_RDN, CMD_MEM_RDN
<1>1. \A S : Protocol!Max(S) = Max(S)
  BY DEF Protocol!Max, Max
<1>2. /\ \A a, d : Protocol!Write(m, a, d) = Write(m, a, d)
      /\ \A k : Protocol!UsesMemory(k) = UsesMemory(k)
      /\ Protocol!Memories = Memories /\ Protocol!ByteValues = ByteValues
  BY <1>1 DEF Protocol!Write, Write, Protocol!Plus, Plus, Protocol!UsesMemory, UsesMemory,
              Protocol!Memories, Memories, Protocol!CellAddresses, CellAddresses,
              Protocol!ByteValues, ByteValues
<1>3. Protocol!Effect(g, m, r) = Effect(g, m, r)
  BY <1>2 DEF Protocol!Effect, Effect
<1>4. Protocol!Encode(r) = Encode(r)
  BY DEF Protocol!Encode, Encode, Protocol!AddressBytes, AddressBytes
<1>5. \A a, n : Protocol!Found(g, m, a, n) = Found(g, m, a, n)
  BY <1>2 DEF Protocol!Found, Found, Protocol!Contents, Contents, Protocol!Plus, Plus
<1>6. Protocol!Reply(g, m, r) = Reply(g, m, r)
  BY <1>4, <1>5 DEF Protocol!Reply, Reply, Protocol!CMD_VERSION, CMD_VERSION,
         Protocol!BOARD_VER, BOARD_VER, Protocol!Batch, Batch,
         Protocol!Subcommand, Subcommand, Protocol!SUBCMD_GET, SUBCMD_GET
<1>7. Protocol!Use(g, c) = Use(g, c)
  BY DEF Protocol!Use, Use, Protocol!UsesPin, UsesPin, Protocol!Batch, Batch,
         Protocol!Subcommand, Subcommand, Protocol!NOTHING, NOTHING,
         Protocol!CMD_ACQUIRE, CMD_ACQUIRE, Protocol!CMD_RELEASE, CMD_RELEASE
<1> QED BY <1>3, <1>6, <1>7

\* The requests that main.c serves as dbgproto.h describes them: all but a
\* block of bytes to write and the input of a pin.
AsDescribed(r) == r.cmd # CMD_MEM_WRN /\ (Batch(r.cmd) \/ Subcommand(r.cmd) # SUBCMD_GET)

\* The pins are set for the bus at first.
LEMMA BusInit ==
  ASSUME mem = [a \in CellAddresses |-> 0], Started
  PROVE  BusInv
<1>1. 0 \in ByteValues
  BY LoopAssumption DEF ByteValues
<1>2. mem \in Memories
  BY <1>1 DEF Memories
<1>3. Strobes \subseteq high /\ BUS_RESET \in output /\ regime = "free"
  BY LineNumbers DEF Started
<1> QED BY <1>2, <1>3 DEF BusInv, Regimes

\* They are not set but by the loop.
LEMMA BusSame ==
  ASSUME BusInv, UNCHANGED <<mem, pins>>
  PROVE  BusInv'
<1>1. UNCHANGED <<mem, output, high, regime>>
  BY DEF pins
<1>2. Held' = Held
  BY <1>1 DEF Held, Quiet, Lines, Controls, Strobes
<1> QED BY <1>1, <1>2 DEF BusInv, Memories, Strobes

\* A pass of the loop is a step of the protocol, and so is a batch; taking a
\* packet is none.
LEMMA StepImplements ==
  ASSUME LoopInv, BusInv, [Next]_vars, pending \in Seq(Requests),
         Requests \subseteq {r \in WellFormed : AsDescribed(r)}, MaxBytes <= PacketSize
  PROVE  [Protocol!Next]_<<mem, pending, replies, regime>> /\ pending' \in Seq(Requests) /\ BusInv'
<1>1. CASE SendBatch
  <2>1. Requests \subseteq WellFormed
    OBVIOUS
  <2>2. /\ pending = <<>> /\ pending' \in Seq(Requests) /\ replies' = <<>>
        /\ UNCHANGED <<mem, pins>>
    BY <1>1, <2>1, SendStep
  <2>3. BusInv'
    BY <2>2, BusSame
  <2> QED BY <2>2, <2>3 DEF Protocol!Next, Protocol!Send, pins
<1>2. CASE Receive
  <2>1. UNCHANGED <<mem, pending, replies, pins>>
    BY <1>2, ReceiveStep
  <2>2. BusInv'
    BY <2>1, BusSame
  <2> QED BY <2>1, <2>2 DEF pins
<1>3. CASE Loop
  <2> DEFINE r == Head(pending)
  <2>1. pending # <<>> /\ pending' = Tail(pending) /\ cmd = r.cmd
    BY <1>3, LoopServes
  <2>2. /\ r.cmd # CMD_MEM_WRN => mem' \in Effect(regime, mem, r)
        /\ \E s \in Sends(regime, mem, r) : replies' = replies \o s
    BY <1>3, LoopStep
  <2>3. BusInv' /\ regime' = Use(regime, cmd)
    BY <1>3, BusStep
  <2>4. r \in Requests /\ pending' \in Seq(Requests)
    BY <2>1
  <2> HIDE DEF r
  <2>5. AsDescribed(r)
    BY <2>4
  <2>6. /\ mem' \in Effect(regime, mem, r)
        /\ \E reply \in Reply(regime, mem, r) : replies' = replies \o reply
    BY <2>2, <2>5 DEF AsDescribed, Sends
  <2>7. /\ mem' \in Protocol!Effect(regime, mem, r)
        /\ \E reply \in Protocol!Reply(regime, mem, r) : replies' = replies \o reply
        /\ regime' = Protocol!Use(regime, r.cmd)
    BY <2>1, <2>3, <2>6, SameRequests
  <2>8. Protocol!Serve
    BY <2>1, <2>7 DEF Protocol!Serve, r
  <2> QED BY <2>3, <2>4, <2>8 DEF Protocol!Next
<1>4. CASE UNCHANGED vars
  <2>1. UNCHANGED <<mem, pending, replies, pins>>
    BY <1>4 DEF vars
  <2>2. BusInv'
    BY <2>1, BusSame
  <2> QED BY <2>1, <2>2 DEF pins
<1> QED BY <1>1, <1>2, <1>3, <1>4 DEF Next

\* Of requests that fit in a packet and are served as they are described, the
\* loop does what the protocol promises: each in its turn, with its effect on
\* the memory and its reply; of the memory, between an acquire and a release
\* as long as no pin has been used by itself.
THEOREM ImplementsProtocol ==
  ASSUME Requests \subseteq {r \in WellFormed : AsDescribed(r)}, MaxBytes <= PacketSize
  PROVE  Spec => Serves
<1> DEFINE IInv == LoopInv /\ BusInv /\ pending \in Seq(Requests)
<1>1. Init => IInv
  <2>1. ASSUME Init PROVE pending \in Seq(Requests) /\ BusInv
    <3>1. pending = <<>> /\ mem = [a \in CellAddresses |-> 0] /\ Started
      BY <2>1 DEF Init
    <3> QED BY <3>1, EmptySeq, BusInit
  <2> QED BY <2>1, LoopInvInit
<1>2. ASSUME IInv, [Next]_vars PROVE IInv' /\ [Protocol!Next]_<<mem, pending, replies, regime>>
  <2>1. Requests \subseteq WellFormed
    OBVIOUS
  <2>2. LoopInv'
    BY <1>2, <2>1, LoopInvNext
  <2> QED BY <1>2, <2>2, StepImplements
<1>3. Init => Protocol!Init
  BY DEF Init, Started, Protocol!Init, CellAddresses, Protocol!CellAddresses
<1> HIDE DEF IInv
<1> QED BY <1>1, <1>2, <1>3, PTL DEF Spec, Serves, Protocol!Spec

---------------------------------------------------------------------------
(* The client and its commands.                                            *)

\* The lines that can be entered.
CommandLines ==
  {[name |-> s] : s \in {"quit", "help", "blank", "acquire", "release"}}
    \cup {[name |-> "wr", addr |-> a, data |-> d] : a \in CellAddresses, d \in Seq(ByteValues)}
    \cup {[name |-> "rd", addr |-> a] : a \in CellAddresses}
    \cup {[name |-> "rd", addr |-> a, n |-> m] : a \in CellAddresses, m \in Nat}
    \cup {[name |-> "pin", sub |-> s, pin |-> p] :
            s \in {SUBCMD_SET_HI, SUBCMD_SET_LO, SUBCMD_GET}, p \in Nat}
    \cup {[name |-> "detach", pins |-> ps] : ps \in Seq(Nat)}
    \cup {[name |-> "load", file |-> f, addr |-> a] : f \in Files, a \in CellAddresses}
    \cup {[name |-> "memtest", start |-> a, end |-> b] : a \in CellAddresses, b \in CellAddresses}

\* A block of bytes to write is refused or fits in a packet.
FitsPacket(c) == c.name = "wr" => Len(c.data) > MaxValues \/ Len(c.data) + 4 <= PacketSize

\* Lines that do as they say: no block is written, and none of one byte read.
AsSaid(c) ==
  /\ c.name = "wr" => Len(c.data) <= 1 \/ Len(c.data) > MaxValues
  /\ c.name = "rd" /\ "n" \in DOMAIN c => c.n # 1

---------------------------------------------------------------------------
(* The exchange of one request.                                            *)

\* Requests that fit in a packet.
Fitting == {r \in WellFormed : Size(r) <= PacketSize}

\* Between two requests there is nothing on the line, and while one is awaited
\* there is it alone or what the board sends for it.
LineInv ==
  /\ LoopInv /\ BusInv
  /\ command \in CommandLines \cup {[name |-> "check"]}
  /\ FitsPacket(command)
  /\ script \in Seq(Fitting)
  /\ pc \in {"prompt", "start", "send", "spin"} => pending = <<>> /\ replies = <<>>
  /\ pc = "await" =>
       /\ script # <<>>
       /\ \/ pending = <<Head(script)>> /\ replies = <<>>
          \/ pending = <<>> /\ replies \in Sends(regime, mem, Head(script))

---------------------------------------------------------------------------
(* What a command has stored after some of its requests.                   *)

Base ==
  CASE command.name \in {"wr", "load"} -> command.addr
    [] command.name = "memtest"        -> command.start
    [] OTHER                           -> 0

Data ==
  CASE command.name = "wr"      -> command.data
    [] command.name = "load"    -> command.file
    [] command.name = "memtest" ->
         [k \in DOMAIN CellsOf(command.start, command.end) |-> TestValue[k]]
    [] OTHER                    -> <<>>

\* Requests before the first byte.
Lead == IF command.name = "wr" THEN 0 ELSE 1

\* Bytes stored by the first n requests.
Written(n) == IF n <= Lead THEN 0 ELSE IF n - Lead < Len(Data) THEN n - Lead ELSE Len(Data)
Stored(n) == Write(before, Base, SubSeq(Data, 1, Written(n)))

\* What is left of the script when n requests are over.
Rest(n) == script = SubSeq(Script, n + 1, Len(Script))

ReadsBack ==
  command.name = "rd" =>
    report = Contents(mem, command.addr, IF "n" \in DOMAIN command THEN command.n ELSE 1)

\* Requests served when n are over.
Served(n) == IF pc = "await" /\ pending = <<>> THEN n + 1 ELSE n

\* The bus as it has to be when k requests are served.
BusFor(k) ==
  /\ k < Len(Script) => Storing \subseteq high
  /\ command.name \notin {"pin", "detach"} => regime # "raw"
  /\ command.name \in {"load", "memtest"} /\ fdalive /\ 1 <= k /\ k < Len(Script) => regime = "taken"

\* The bus is where wr and rd need it.
Trusted == command.name \in {"wr", "rd"} => regime = "taken"

\* How far the command is.
At(n) ==
  /\ n \in 0 .. Len(Script)
  /\ Rest(n)
  /\ BusFor(Served(n))
  /\ Trusted => mem = Stored(Served(n))
  /\ pc = "send" /\ script = <<>> /\ Trusted => ReadsBack

\* A command whose requests are sent.
Runs == Talks /\ ~Refused /\ ~Unreadable /\ AsSaid(command)

ProgressInv ==
  /\ before \in Memories
  /\ pc = "start" =>
       mem = before /\ command \in Inputs \cup {[name |-> "check"]} /\ (plain => regime # "raw")
  /\ pc = "await" => fdalive \/ OpensItself(Head(script))
  /\ pc \in {"send", "await"} /\ ~failed /\ command \notin Known /\ plain =>
       /\ Runs
       /\ \E n \in Nat : At(n)

ClientInv == LineInv /\ ProgressInv /\ Truthful

---------------------------------------------------------------------------
(* The bytes of memtest.                                                   *)

NextSeed(x) == (1664525 * x + 1013904223) % Radix

\* The first n + 1 of them.
Seeds(g, n) ==
  g \in [0 .. n -> Nat] /\ g[0] = 0 /\ \A k \in 1 .. n : g[k] = NextSeed(g[k - 1])

\* A pseudo random number is a byte.
LEMMA NextSeedIsByte ==
  ASSUME NEW x \in Nat
  PROVE  NextSeed(x) \in ByteValues /\ NextSeed(x) \in Nat
<1>1. Radix \in Nat \ {0}
  BY LoopAssumption
<1> DEFINE s == 1664525 * x + 1013904223
<1>2. s \in Nat
  OBVIOUS
<1> HIDE DEF s
<1>3. s % Radix \in 0 .. Radix - 1
  BY <1>1, <1>2
<1> QED BY <1>1, <1>3 DEF NextSeed, ByteValues, s

\* They can be listed as far as one likes.
LEMMA SeedsExist ==
  ASSUME NEW n \in Nat
  PROVE  \E g : Seeds(g, n)
<1> DEFINE Good == {m \in Nat : \E g : Seeds(g, m)}
<1>1. 0 \in Good
  <2> DEFINE g == [k \in 0 .. 0 |-> 0]
  <2>1. Seeds(g, 0)
    BY DEF Seeds
  <2> QED BY <2>1
<1>2. ASSUME NEW m \in Nat, m \in Good PROVE m + 1 \in Good
  <2>1. PICK g : Seeds(g, m)
    BY <1>2
  <2> DEFINE h == [k \in 0 .. m + 1 |-> IF k <= m THEN g[k] ELSE NextSeed(g[m])]
  <2>2. /\ g \in [0 .. m -> Nat] /\ g[0] = 0
        /\ \A k \in 1 .. m : g[k] = NextSeed(g[k - 1])
    BY <2>1 DEF Seeds
  <2>3. NextSeed(g[m]) \in Nat
    BY <2>2, NextSeedIsByte
  <2>4. h \in [0 .. m + 1 -> Nat]
    BY <2>2, <2>3
  <2>5. \A k \in 0 .. m : h[k] = g[k]
    OBVIOUS
  <2>6. h[m + 1] = NextSeed(g[m])
    OBVIOUS
  <2> HIDE DEF h
  <2>7. ASSUME NEW k \in 1 .. m + 1 PROVE h[k] = NextSeed(h[k - 1])
    <3>1. CASE k \in 1 .. m
      <4>1. h[k] = g[k] /\ h[k - 1] = g[k - 1]
        BY <2>5, <3>1
      <4> QED BY <2>2, <3>1, <4>1
    <3>2. CASE k = m + 1
      <4>1. k - 1 = m /\ m \in 0 .. m
        BY <3>2
      <4>2. h[k - 1] = g[m]
        BY <2>5, <4>1
      <4> QED BY <2>6, <3>2, <4>2
    <3> QED BY <3>1, <3>2
  <2>8. h[0] = 0
    BY <2>2, <2>5
  <2>9. Seeds(h, m + 1)
    BY <2>4, <2>7, <2>8 DEF Seeds
  <2> QED BY <2>9
<1> HIDE DEF Good
<1>3. Nat \subseteq Good
  BY <1>1, <1>2, SetInduction
<1> QED BY <1>3 DEF Good

\* Two lists agree where both go.
LEMMA SeedsAgree ==
  ASSUME NEW n \in Nat, NEW m \in Nat, NEW g, NEW h, Seeds(g, n), Seeds(h, m)
  PROVE  \A k \in Nat : k <= n /\ k <= m => g[k] = h[k]
<1> DEFINE Good == {k \in Nat : k <= n /\ k <= m => g[k] = h[k]}
<1>1. 0 \in Good
  BY DEF Seeds
<1>2. ASSUME NEW k \in Nat, k \in Good PROVE k + 1 \in Good
  <2>1. SUFFICES ASSUME k + 1 <= n, k + 1 <= m PROVE g[k + 1] = h[k + 1]
    OBVIOUS
  <2>2. g[k] = h[k]
    BY <1>2, <2>1
  <2>3. k + 1 \in 1 .. n /\ k + 1 \in 1 .. m /\ (k + 1) - 1 = k
    BY <2>1
  <2>4. g[k + 1] = NextSeed(g[(k + 1) - 1]) /\ h[k + 1] = NextSeed(h[(k + 1) - 1])
    BY <2>3 DEF Seeds
  <2> QED BY <2>2, <2>3, <2>4
<1> HIDE DEF Good
<1>3. Nat \subseteq Good
  BY <1>1, <1>2, SetInduction
<1> QED BY <1>3 DEF Good

\* The recursive definition of the bytes is one of a function.
LEMMA TestValueIs ==
  /\ DOMAIN TestValue = Nat
  /\ TestValue[0] = 0
  /\ \A k \in Nat \ {0} : TestValue[k] = NextSeed(TestValue[k - 1])
<1> DEFINE G(k) == CHOOSE g : Seeds(g, k)
           f == [k \in Nat |-> G(k)[k]]
<1>1. \A k \in Nat : Seeds(G(k), k)
  BY SeedsExist
<1> HIDE DEF G
<1>2. ASSUME NEW k \in Nat PROVE f[k] = IF k = 0 THEN 0 ELSE NextSeed(f[k - 1])
  <2>1. CASE k = 0
    BY <1>1, <2>1 DEF Seeds
  <2>2. CASE k # 0
    <3>1. k - 1 \in Nat /\ k - 1 <= k /\ k \in 1 .. k
      BY <2>2
    <3>2. G(k)[k] = NextSeed(G(k)[k - 1])
      BY <1>1, <3>1 DEF Seeds
    <3>3. G(k)[k - 1] = G(k - 1)[k - 1]
      BY <1>1, <3>1, SeedsAgree
    <3> QED BY <2>2, <3>1, <3>2, <3>3
  <2> QED BY <2>1, <2>2
<1> DEFINE Is(v) == v = [k \in Nat |-> IF k = 0 THEN 0
                                       ELSE (1664525 * v[k - 1] + 1013904223) % Radix]
<1>3. Is(f)
  BY <1>2 DEF NextSeed
<1> HIDE DEF f
<1>4. TestValue = CHOOSE v : Is(v)
  BY DEF TestValue
<1>5. Is(TestValue)
  BY <1>3, <1>4
<1> QED BY <1>5 DEF NextSeed

\* They are bytes.
LEMMA TestValueIsByte == \A k \in Nat : TestValue[k] \in ByteValues
<1> DEFINE Good == {k \in Nat : TestValue[k] \in ByteValues /\ TestValue[k] \in Nat}
<1>1. 0 \in Good
  BY TestValueIs, LoopAssumption DEF ByteValues
<1>2. ASSUME NEW k \in Nat, k \in Good PROVE k + 1 \in Good
  <2>1. k + 1 \in Nat \ {0} /\ (k + 1) - 1 = k
    OBVIOUS
  <2>2. TestValue[k + 1] = NextSeed(TestValue[(k + 1) - 1])
    BY <2>1, TestValueIs
  <2> QED BY <1>2, <2>1, <2>2, NextSeedIsByte
<1> HIDE DEF Good
<1>3. Nat \subseteq Good
  BY <1>1, <1>2, SetInduction
<1> QED BY <1>3 DEF Good

---------------------------------------------------------------------------
(* What the board sends is what the client waits for.                      *)

\* What is found are bytes, and those stored if the bus is taken.
LEMMA FoundFacts ==
  ASSUME NEW g, NEW m \in Memories, NEW a \in CellAddresses, NEW n \in Nat
  PROVE  /\ Found(g, m, a, n) # {}
         /\ \A f \in Found(g, m, a, n) :
              f \in Seq(Nat) /\ Len(f) = n /\ (g = "taken" => f = Contents(m, a, n))
<1>1. ByteValues \subseteq Nat /\ 0 \in ByteValues
  BY LoopAssumption DEF ByteValues
<1>2. CASE g = "taken"
  <2>1. Contents(m, a, n) \in Seq(ByteValues) /\ Len(Contents(m, a, n)) = n
    BY ContentsFacts
  <2>2. Contents(m, a, n) \in Seq(Nat)
    <3>1. \A k \in 1 .. n : Contents(m, a, n)[k] \in Nat
      BY <1>1, <2>1, ElementOfSeq
    <3> QED BY <2>1, <3>1
  <2> QED BY <1>2, <2>1, <2>2 DEF Found
<1>3. CASE g # "taken"
  <2>1. Found(g, m, a, n) = [1 .. n -> ByteValues]
    BY <1>3 DEF Found
  <2>2. [k \in 1 .. n |-> 0] \in [1 .. n -> ByteValues]
    BY <1>1
  <2>3. ASSUME NEW f \in [1 .. n -> ByteValues] PROVE f \in Seq(Nat) /\ Len(f) = n
    <3>1. f \in [1 .. n -> Nat]
      BY <1>1
    <3> QED BY <3>1
  <2> QED BY <1>3, <2>1, <2>2, <2>3
<1> QED BY <1>2, <1>3

\* A reply is as long as the client expects, and holds what was read if the
\* bus is taken.
LEMMA SendsFacts ==
  ASSUME NEW r \in WellFormed, NEW g, NEW m \in Memories, NEW s \in Sends(g, m, r)
  PROVE  /\ s \in Seq(Nat) /\ Len(s) = Expected(r) /\ Expected(r) \in Nat \ {0}
         /\ r.cmd = CMD_MEM_RD => r.addr \in CellAddresses /\ (g = "taken" => s[4] = m[r.addr])
         /\ r.cmd = CMD_MEM_RDN =>
              /\ r.addr \in CellAddresses /\ s[4] = r.n /\ r.n \in Nat
              /\ g = "taken" => SubSeq(s, 5, 4 + r.n) = Contents(m, r.addr, r.n)
<1> USE Codes
<1> DEFINE e == Encode(r)
<1>1. /\ e \in Seq(Nat) /\ Len(e) = Size(r) /\ Len(e) \in Nat \ {0} /\ e[1] = r.cmd
      /\ r.cmd = CMD_MEM_RDN => r.n \in Nat /\ e[4] = r.n
  BY EncodeFacts
<1>2. r.cmd \in Nat
  <2>1. 1 \in 1 .. Len(e)
    BY <1>1
  <2> QED BY <1>1, <2>1
<1>3. r.cmd \in WithAddress => r.addr \in CellAddresses
  BY DEF WellFormed
<1> HIDE DEF e
<1>4. CASE r.cmd = CMD_VERSION
  <2>1. e = <<r.cmd>> /\ s = <<r.cmd>> \o BOARD_VER /\ Expected(r) = Len(e) + Len(BOARD_VER)
    BY <1>4 DEF Sends, Reply, Expected, Encode, WithAddress, e
  <2>2. Len(BOARD_VER) = 2 /\ BOARD_VER \in Seq(Nat)
    BY DEF BOARD_VER
  <2> HIDE DEF BOARD_VER
  <2>3. s \in Seq(Nat) /\ Len(s) = 3 /\ Len(e) = 1
    <3>1. e \in Seq(Nat) /\ Len(e) = 1
      BY <1>2, <2>1
    <3>2. s = e \o BOARD_VER
      BY <2>1
    <3>3. BOARD_VER \in Seq(Nat)
      BY <2>2
    <3>4. s \in Seq(Nat) /\ Len(s) = Len(e) + Len(BOARD_VER)
      BY <3>1, <3>2, <3>3, PiecesFacts
    <3> QED BY <2>2, <3>1, <3>4
  <2> QED BY <1>4, <2>1, <2>2, <2>3 DEF WithAddress
<1>5. CASE r.cmd = CMD_MEM_RD
  <2>1. Expected(r) = Len(e) + 1
    BY <1>5 DEF Expected, WithAddress, e
  <2>8. PICK c \in Found(g, m, r.addr, 1) : s = e \o c
    <3>1. Sends(g, m, r) = {e \o c : c \in Found(g, m, r.addr, 1)}
      BY <1>5 DEF Sends, Reply, WithAddress, e
    <3> QED BY <3>1
  <2>2. c \in Seq(Nat) /\ Len(c) = 1 /\ (g = "taken" => c[1] = m[Plus(r.addr, 1 - 1)])
    <3>1. r.addr \in CellAddresses /\ 1 \in Nat /\ 1 \in 1 .. 1
      BY <1>3, <1>5 DEF WithAddress
    <3>2. \A f \in Found(g, m, r.addr, 1) :
            f \in Seq(Nat) /\ Len(f) = 1 /\ (g = "taken" => f = Contents(m, r.addr, 1))
      <4>1. ASSUME NEW n \in Nat, NEW a \in CellAddresses, NEW f \in Found(g, m, a, n)
            PROVE  f \in Seq(Nat) /\ Len(f) = n /\ (g = "taken" => f = Contents(m, a, n))
        BY FoundFacts
      <4> QED BY <3>1, <4>1
    <3>3. Contents(m, r.addr, 1)[1] = m[Plus(r.addr, 1 - 1)]
      BY <3>1, ContentsFacts
    <3>4. c \in Seq(Nat) /\ Len(c) = 1 /\ (g = "taken" => c = Contents(m, r.addr, 1))
      BY <3>2
    <3> QED BY <3>3, <3>4
  <2>3. Plus(r.addr, 1 - 1) = r.addr
    <3>1. 1 - 1 = 0
      OBVIOUS
    <3> QED BY <1>3, <1>5, <3>1, PlusZero DEF WithAddress
  <2>4. Len(e) = 3
    BY <1>1, <1>5 DEF Size
  <2>5. s = e \o c
    BY <2>8
  <2>6. s \in Seq(Nat) /\ Len(s) = 4 /\ s[4] = c[1]
    <3>1. e \in Seq(Nat) /\ c \in Seq(Nat)
      BY <1>1, <2>2
    <3>2. /\ s \in Seq(Nat) /\ Len(s) = Len(e) + Len(c)
          /\ \A k \in 1 .. Len(c) : s[Len(e) + k] = c[k]
      BY <2>5, <3>1, PiecesFacts
    <3>3. 1 \in 1 .. Len(c) /\ Len(e) + 1 = 4 /\ Len(e) + Len(c) = 4
      BY <2>2, <2>4
    <3> QED BY <3>2, <3>3
  <2>7. Expected(r) = 4 /\ r.addr \in CellAddresses /\ r.cmd # CMD_MEM_RDN
    BY <1>3, <1>5, <2>1, <2>4 DEF WithAddress
  <2> QED BY <2>2, <2>3, <2>6, <2>7
<1>6. CASE r.cmd = CMD_MEM_RDN
  <2>1. Expected(r) = Len(e) + r.n
    BY <1>6 DEF Expected, WithAddress, e
  <2>10. PICK c \in Found(g, m, r.addr, r.n) : s = e \o c
    <3>1. Sends(g, m, r) = {e \o c : c \in Found(g, m, r.addr, r.n)}
      BY <1>6 DEF Sends, Reply, WithAddress, e
    <3> QED BY <3>1
  <2>2. c \in Seq(Nat) /\ Len(c) = r.n /\ r.n \in Nat /\ (g = "taken" => c = Contents(m, r.addr, r.n))
    <3>1. r.addr \in CellAddresses /\ r.n \in Nat
      BY <1>1, <1>3, <1>6 DEF WithAddress
    <3> QED BY <3>1, FoundFacts
  <2>4. Len(e) = 4 /\ e[4] = r.n
    BY <1>1, <1>6 DEF Size
  <2>5. s = e \o c
    BY <2>10
  <2>3. e \in Seq(Nat) /\ c \in Seq(Nat)
    BY <1>1, <2>2
  <2>6. /\ s \in Seq(Nat) /\ Len(s) = Len(e) + Len(c)
        /\ \A k \in 1 .. Len(e) : s[k] = e[k]
        /\ \A k \in 1 .. Len(c) : s[Len(e) + k] = c[k]
    BY <2>3, <2>5, PiecesFacts
  <2>7. /\ s \in Seq(Nat) /\ Len(s) = 4 + r.n /\ s[4] = r.n
        /\ \A k \in 1 .. r.n : s[4 + k] = c[k]
    <3>1. 4 \in 1 .. Len(e)
      BY <2>4
    <3> QED BY <2>2, <2>4, <2>6, <3>1
  <2>8. SubSeq(s, 5, 4 + r.n) = c
    <3>1. ASSUME NEW f \in Nat \ {0}, NEW n \in Nat, f = 5, n = 4 + r.n
          PROVE  SubSeq(s, f, n) = c
      <4>1. f - 1 = 4 /\ n = f - 1 + Len(c) /\ n <= Len(s)
        BY <2>2, <2>7, <3>1
      <4>2. \A k \in 1 .. Len(c) : s[f - 1 + k] = c[k]
        BY <2>2, <2>7, <4>1
      <4> QED BY <2>2, <2>7, <4>1, <4>2, EndFacts
    <3>2. 5 \in Nat \ {0} /\ 4 + r.n \in Nat
      BY <2>2
    <3> QED BY <3>1, <3>2
  <2>9. Expected(r) = 4 + r.n /\ r.addr \in CellAddresses /\ r.cmd # CMD_MEM_RD
    BY <1>3, <1>6, <2>1, <2>4 DEF WithAddress
  <2>11. g = "taken" => SubSeq(s, 5, 4 + r.n) = Contents(m, r.addr, r.n)
    BY <2>2, <2>8
  <2>12. s \in Seq(Nat) /\ Len(s) = Expected(r) /\ Expected(r) \in Nat \ {0} /\ s[4] = r.n
    BY <2>2, <2>7, <2>9
  <2> QED BY <1>6, <2>2, <2>9, <2>11, <2>12
<1>7. CASE ~Batch(r.cmd) /\ Subcommand(r.cmd) = SUBCMD_GET
  <2>1. r.cmd \notin WithAddress /\ r.cmd # CMD_VERSION
    BY <1>7
  <2>2. e = <<r.cmd>> /\ Expected(r) = Len(e) + 1
    BY <1>7, <2>1 DEF Encode, Expected, WithAddress, e
  <2>3. s = <<r.cmd, 0>> \/ s = <<r.cmd, 1>>
    BY <1>7 DEF Sends
  <2>4. s \in Seq(Nat) /\ Len(s) = 2
    <3>1. \A x \in Nat : <<r.cmd, x>> \in Seq(Nat) /\ Len(<<r.cmd, x>>) = 2
      BY <1>2
    <3>2. 0 \in Nat /\ 1 \in Nat
      OBVIOUS
    <3> QED BY <2>3, <3>1, <3>2
  <2>5. Len(e) = 1
    BY <2>2
  <2> QED BY <2>1, <2>2, <2>4, <2>5 DEF WithAddress
<1>8. CASE /\ r.cmd \notin {CMD_VERSION, CMD_MEM_RD, CMD_MEM_RDN}
           /\ ~(~Batch(r.cmd) /\ Subcommand(r.cmd) = SUBCMD_GET)
  <2>1. s = e
    BY <1>8 DEF Sends, Reply, e
  <2>2. Expected(r) = Len(e) + 0
    BY <1>8 DEF Expected, e
  <2> QED BY <1>1, <1>8, <2>1, <2>2
<1> QED BY <1>4, <1>5, <1>6, <1>7, <1>8

\* A pass of the loop serves the first request.
LEMMA BoardServes ==
  ASSUME LoopInv, BusInv, Loop
  PROVE  /\ LoopInv' /\ BusInv'
         /\ pending # <<>> /\ Head(pending) \in WellFormed /\ pending' = Tail(pending)
         /\ \E s \in Sends(regime', mem', Head(pending)) : replies' = replies \o s
<1> DEFINE r == Head(pending)
<1>1. LoopInv' /\ pending # <<>> /\ r \in WellFormed /\ pending' = Tail(pending) /\ cmd = r.cmd
  BY LoopServes
<1>2. BusInv' /\ regime' = Use(regime, cmd)
  BY BusStep
<1>3. /\ r.cmd # CMD_MEM_WRN => mem' \in Effect(regime, mem, r)
      /\ \E s \in Sends(regime, mem, r) : replies' = replies \o s
  BY LoopStep
<1> HIDE DEF r
<1>4. Sends(regime', mem', r) = Sends(regime, mem, r)
  <2>1. CASE r.cmd \notin {CMD_MEM_RD, CMD_MEM_RDN}
    BY <2>1 DEF Sends, Reply
  <2>2. CASE r.cmd \in {CMD_MEM_RD, CMD_MEM_RDN}
    <3>1. UsesMemory(cmd) /\ r.cmd # CMD_MEM_WRN /\ r.cmd # CMD_MEM_WR
      BY <1>1, <2>2, Codes DEF UsesMemory
    <3>2. regime \in Regimes
      BY DEF BusInv
    <3>3. regime' = regime
      BY <1>2, <3>1, <3>2, UseFacts
    <3>4. regime = "taken" => mem' = mem
      BY <1>3, <3>1 DEF Effect
    <3>5. ASSUME NEW a, NEW n PROVE Found(regime', mem', a, n) = Found(regime, mem, a, n)
      BY <3>3, <3>4 DEF Found
    <3> QED BY <3>5 DEF Sends, Reply
  <2> QED BY <2>1, <2>2
<1> QED BY <1>1, <1>2, <1>3, <1>4 DEF r

---------------------------------------------------------------------------
(* What a command asks for.                                                *)

\* A byte holds every code and every count that is accepted, a packet every
\* request but a block.
Sizes == 16 <= Radix /\ MaxValues < Radix /\ 4 <= PacketSize

\* What is known of a line from its name.
LEMMA LineFacts ==
  ASSUME command \in CommandLines \cup {[name |-> "check"]}
  PROVE  /\ command.name \in {"quit", "help", "blank", "acquire", "release", "check",
                              "wr", "rd", "pin", "detach", "load", "memtest"}
         /\ command.name = "wr" => command.addr \in CellAddresses /\ command.data \in Seq(ByteValues)
         /\ command.name = "rd" => /\ command.addr \in CellAddresses
                                   /\ "n" \in DOMAIN command => command.n \in Nat
         /\ command.name = "pin" =>
              command.sub \in {SUBCMD_SET_HI, SUBCMD_SET_LO, SUBCMD_GET} /\ command.pin \in Nat
         /\ command.name = "detach" => command.pins \in Seq(Nat)
         /\ command.name = "load" => command.addr \in CellAddresses /\ command.file \in Files
         /\ command.name = "memtest" =>
              command.start \in CellAddresses /\ command.end \in CellAddresses
<1>1. CASE command \in {[name |-> s] : s \in {"quit", "help", "blank", "acquire", "release", "check"}}
  BY <1>1
<1>2. CASE command \in {[name |-> "wr", addr |-> a, data |-> d] :
                           a \in CellAddresses, d \in Seq(ByteValues)}
  BY <1>2
<1>3. CASE command \in {[name |-> "rd", addr |-> a] : a \in CellAddresses}
  BY <1>3
<1>4. CASE command \in {[name |-> "rd", addr |-> a, n |-> m] : a \in CellAddresses, m \in Nat}
  BY <1>4
<1>5. CASE command \in {[name |-> "pin", sub |-> s, pin |-> p] :
                          s \in {SUBCMD_SET_HI, SUBCMD_SET_LO, SUBCMD_GET}, p \in Nat}
  BY <1>5
<1>6. CASE command \in {[name |-> "detach", pins |-> ps] : ps \in Seq(Nat)}
  BY <1>6
<1>7. CASE command \in {[name |-> "load", file |-> f, addr |-> a] : f \in Files, a \in CellAddresses}
  BY <1>7
<1>8. CASE command \in {[name |-> "memtest", start |-> a, end |-> b] :
                          a \in CellAddresses, b \in CellAddresses}
  BY <1>8
<1> QED BY <1>1, <1>2, <1>3, <1>4, <1>5, <1>6, <1>7, <1>8 DEF CommandLines

\* The requests of one byte.
LEMMA CmdFits ==
  ASSUME Sizes, NEW c \in Nat \ WithAddress
  PROVE  Cmd(c) \in Fitting /\ Cmd(c).cmd = c
<1>1. Cmd(c) = [cmd |-> c] /\ Cmd(c).cmd = c
  BY DEF Cmd
<1>2. Cmd(c) \in WellFormed
  BY <1>1 DEF WellFormed
<1>3. Size(Cmd(c)) = 1
  BY <1>1 DEF Size, WithAddress
<1>4. 1 <= PacketSize
  BY LoopAssumption
<1> QED BY <1>1, <1>2, <1>3, <1>4 DEF Fitting

\* Those of the bus and of the board.
LEMMA BusFits ==
  ASSUME Sizes, NEW c \in {CMD_VERSION, CMD_ACQUIRE, CMD_RELEASE}
  PROVE  Cmd(c) \in Fitting /\ Cmd(c).cmd = c /\ c \notin WithAddress
<1>1. c \in Nat \ WithAddress
  BY DEF WithAddress, CMD_VERSION, CMD_ACQUIRE, CMD_RELEASE,
       CMD_MEM_WR, CMD_MEM_RD, CMD_MEM_WRN, CMD_MEM_RDN
<1> QED BY <1>1, CmdFits

\* Those of a pin.
LEMMA PinFits ==
  ASSUME Sizes, NEW p \in Nat, NEW s \in {SUBCMD_SET_HI, SUBCMD_SET_LO, SUBCMD_GET}
  PROVE  cmd_pin(s, p) \in Fitting /\ cmd_pin(s, p).cmd \notin WithAddress
<1>1. 8 * p + s \in Nat \ WithAddress
  BY DEF WithAddress, SUBCMD_SET_HI, SUBCMD_SET_LO, SUBCMD_GET,
       CMD_MEM_WR, CMD_MEM_RD, CMD_MEM_WRN, CMD_MEM_RDN
<1> QED BY <1>1, CmdFits DEF cmd_pin

\* Those of the memory.
LEMMA MemFits ==
  ASSUME Sizes, NEW a \in CellAddresses, NEW b \in ByteValues
  PROVE  /\ WrOne(a, b) \in Fitting
         /\ RdOne(a) \in Fitting /\ RdOne(a).cmd = CMD_MEM_RD
<1> USE Codes
<1>1. /\ WrOne(a, b) \in WellFormed /\ WrOne(a, b).cmd = CMD_MEM_WR
      /\ RdOne(a) \in WellFormed /\ RdOne(a).cmd = CMD_MEM_RD
  BY DEF WrOne, RdOne, WellFormed
<1>2. Size(WrOne(a, b)) = 4 /\ Size(RdOne(a)) = 3
  BY <1>1 DEF Size
<1>3. 4 <= PacketSize /\ 3 <= PacketSize
  BY LoopAssumption DEF Sizes
<1> QED BY <1>1, <1>2, <1>3 DEF Fitting

\* The cells of a memtest.
LEMMA CellsFacts ==
  ASSUME NEW a \in CellAddresses, NEW b \in CellAddresses
  PROVE  /\ CellsOf(a, b) \in Seq(CellAddresses)
         /\ \A k \in 1 .. Len(CellsOf(a, b)) : CellsOf(a, b)[k] = Plus(a, k - 1)
<1> DEFINE n == IF b < a THEN 0 ELSE b - a + 1
<1>1. a \in Nat /\ b \in Nat /\ \A x \in Nat : x <= b => x \in CellAddresses
  <2> DEFINE top == Radix * Radix
  <2>1. top \in Nat
    BY LoopAssumption
  <2> HIDE DEF top
  <2>2. CellAddresses = 0 .. top - 1
    BY DEF CellAddresses, top
  <2> QED BY <2>1, <2>2
<1>2. n \in Nat /\ \A k \in 1 .. n : a + k - 1 \in Nat /\ a + k - 1 <= b
  BY <1>1
<1>3. CellsOf(a, b) = [k \in 1 .. n |-> a + k - 1]
  BY DEF CellsOf
<1> HIDE DEF n
<1>4. CellsOf(a, b) \in Seq(CellAddresses) /\ Len(CellsOf(a, b)) = n
  BY <1>1, <1>2, <1>3
<1>5. ASSUME NEW k \in 1 .. n PROVE CellsOf(a, b)[k] = Plus(a, k - 1)
  <2>1. CellsOf(a, b)[k] = a + k - 1
    BY <1>3
  <2>2. k - 1 \in Nat /\ a + (k - 1) = a + k - 1 /\ a + (k - 1) \in CellAddresses
    BY <1>1, <1>2
  <2> QED BY <1>1, <2>1, <2>2, PlusFacts
<1> QED BY <1>4, <1>5

\* Every request of a command fits in a packet.
LEMMA ScriptFits ==
  ASSUME Sizes, command \in CommandLines \cup {[name |-> "check"]}, FitsPacket(command),
         Talks, ~Refused, ~Unreadable
  PROVE  Script \in Seq(Fitting)
<1> DEFINE acq == Cmd(CMD_ACQUIRE)
           rel == Cmd(CMD_RELEASE)
<1>1. acq \in Fitting /\ rel \in Fitting /\ Cmd(CMD_VERSION) \in Fitting
  BY BusFits
<1>2. \A r \in Fitting : <<r>> \in Seq(Fitting) /\ \A q \in Fitting : <<r, q>> \in Seq(Fitting)
  OBVIOUS
<1>3. \A t \in Seq(Fitting) : <<acq>> \o t \o <<rel>> \in Seq(Fitting)
  BY <1>1, <1>2
<1> HIDE DEF acq, rel
<1>4. CASE command.name = "wr"
  <2>1. /\ command.addr \in CellAddresses /\ command.data \in Seq(ByteValues)
        /\ Len(command.data) \in 1 .. MaxValues /\ Len(command.data) + 4 <= PacketSize
    <3>1. Len(command.data) \in 1 .. MaxValues
      BY <1>4 DEF Refused
    <3> QED BY <1>4, <3>1, LineFacts, ClientAssumption DEF FitsPacket
  <2>2. cmd_wr \in Fitting
    <3>1. CASE Len(command.data) = 1
      <4>1. cmd_wr = WrOne(command.addr, command.data[1])
        BY <3>1 DEF cmd_wr
      <4>2. command.data[1] \in ByteValues
        BY <2>1, <3>1
      <4> QED BY <2>1, <4>1, <4>2, MemFits
    <3>2. CASE Len(command.data) # 1
      <4>1. cmd_wr = [cmd |-> CMD_MEM_WRN, addr |-> command.addr, data |-> command.data]
        BY <3>2 DEF cmd_wr
      <4>2. Len(command.data) \in ByteValues
        BY <2>1, LoopAssumption, ClientAssumption DEF Sizes, ByteValues
      <4>3. cmd_wr \in WellFormed /\ cmd_wr.cmd = CMD_MEM_WRN /\ cmd_wr.data = command.data
        BY <2>1, <4>1, <4>2 DEF WellFormed
      <4>4. Size(cmd_wr) = 4 + Len(command.data)
        BY <4>3, Codes DEF Size
      <4>5. Size(cmd_wr) <= PacketSize
        BY <2>1, <4>4, LoopAssumption
      <4> QED BY <4>3, <4>5 DEF Fitting
    <3> QED BY <3>1, <3>2
  <2>3. Script = <<cmd_wr>>
    BY <1>4 DEF Script
  <2> QED BY <1>2, <2>2, <2>3
<1>5. CASE command.name = "rd"
  <2>1. /\ command.addr \in CellAddresses
        /\ "n" \in DOMAIN command => command.n \in 0 .. MaxValues
    <3>1. "n" \in DOMAIN command => ~(command.n > MaxValues)
      BY <1>5 DEF Unreadable
    <3> QED BY <1>5, <3>1, LineFacts, ClientAssumption
  <2>2. cmd_rd \in Fitting
    <3>1. CASE "n" \in DOMAIN command
      <4>1. cmd_rd = [cmd |-> CMD_MEM_RDN, addr |-> command.addr, n |-> command.n]
        BY <3>1 DEF cmd_rd
      <4>2. command.n \in ByteValues
        BY <2>1, <3>1, LoopAssumption, ClientAssumption DEF Sizes, ByteValues
      <4>3. cmd_rd \in WellFormed /\ cmd_rd.cmd = CMD_MEM_RDN
        BY <2>1, <4>1, <4>2 DEF WellFormed
      <4>4. Size(cmd_rd) = 4
        BY <4>3, Codes DEF Size
      <4> QED BY <4>3, <4>4 DEF Fitting, Sizes
    <3>2. CASE "n" \notin DOMAIN command
      <4>1. cmd_rd = RdOne(command.addr)
        BY <3>2 DEF cmd_rd
      <4>2. 0 \in ByteValues
        BY LoopAssumption DEF ByteValues
      <4> QED BY <2>1, <4>1, <4>2, MemFits
    <3> QED BY <3>1, <3>2
  <2>3. Script = <<cmd_rd>>
    BY <1>5 DEF Script
  <2> QED BY <1>2, <2>2, <2>3
<1>6. CASE command.name = "pin"
  <2>1. cmd_pin(command.sub, command.pin) \in Fitting
    BY <1>6, LineFacts, PinFits
  <2>2. Script = <<cmd_pin(command.sub, command.pin)>>
    BY <1>6 DEF Script
  <2> QED BY <1>2, <2>1, <2>2
<1>7. CASE command.name \in {"acquire", "release", "check"}
  <2>1. \/ Script = <<acq>> \/ Script = <<rel>> \/ Script = <<Cmd(CMD_VERSION), rel>>
    BY <1>7 DEF Script, acq, rel
  <2> QED BY <1>1, <1>2, <2>1
<1>8. CASE command.name = "detach"
  <2>1. command.pins \in Seq(Nat)
    BY <1>8, LineFacts
  <2>2. \A k \in DOMAIN command.pins : cmd_pin(SUBCMD_GET, command.pins[k]) \in Fitting
    BY <2>1, PinFits
  <2>3. cmd_detach \in Seq(Fitting)
    BY <2>1, <2>2 DEF cmd_detach
  <2>4. Script = cmd_detach
    BY <1>8 DEF Script
  <2> QED BY <2>3, <2>4
<1>9. CASE command.name = "load"
  <2>1. command.addr \in CellAddresses /\ command.file \in Seq(ByteValues)
    BY <1>9, LineFacts, ClientAssumption
  <2> DEFINE t == [k \in DOMAIN command.file |-> WrOne(Plus(command.addr, k - 1), command.file[k])]
  <2>2. ASSUME NEW k \in 1 .. Len(command.file)
        PROVE  WrOne(Plus(command.addr, k - 1), command.file[k]) \in Fitting
    <3>1. Len(command.file) \in Nat
      BY <2>1
    <3>2. k - 1 \in Nat
      BY <3>1
    <3>3. command.addr \in Nat
      BY <2>1, AddressIsNat
    <3>4. command.file[k] \in ByteValues
      BY <2>1, ElementOfSeq
    <3> QED BY <3>2, <3>3, <3>4, PlusFacts, MemFits
  <2>3. t \in Seq(Fitting)
    BY <2>1, <2>2
  <2>4. Script = <<acq>> \o t \o <<rel>>
    BY <1>9 DEF Script, cmd_load, acq, rel
  <2> QED BY <1>3, <2>3, <2>4
<1>10. CASE command.name = "memtest"
  <2> DEFINE cells == CellsOf(command.start, command.end)
             t == [k \in DOMAIN cells |-> WrOne(cells[k], TestValue[k])]
             u == [k \in DOMAIN cells |-> RdOne(cells[k])]
  <2>1. cells \in Seq(CellAddresses)
    BY <1>10, LineFacts, CellsFacts
  <2>2. Script = <<acq>> \o t \o u \o <<rel>>
    BY <1>10 DEF Script, cmd_memtest, acq, rel
  <2> HIDE DEF cells
  <2>3. ASSUME NEW k \in 1 .. Len(cells)
        PROVE  WrOne(cells[k], TestValue[k]) \in Fitting /\ RdOne(cells[k]) \in Fitting
    <3>1. cells[k] \in CellAddresses /\ k \in Nat
      BY <2>1
    <3> QED BY <3>1, TestValueIsByte, MemFits
  <2>4. t \in Seq(Fitting) /\ u \in Seq(Fitting)
    BY <2>1, <2>3
  <2> HIDE DEF t, u
  <2> QED BY <1>1, <1>2, <2>2, <2>4
<1> QED BY <1>4, <1>5, <1>6, <1>7, <1>8, <1>9, <1>10, LineFacts DEF Talks

\* Requests between an acquire and a release.
LEMMA BetweenFacts ==
  ASSUME NEW T, NEW a \in T, NEW t \in Seq(T), NEW z \in T, NEW s, s = <<a>> \o t \o <<z>>
  PROVE  /\ s \in Seq(T) /\ Len(s) = Len(t) + 2 /\ Len(t) \in Nat
         /\ s[1] = a /\ s[Len(t) + 2] = z
         /\ \A k \in 1 .. Len(t) : s[k + 1] = t[k]
<1> DEFINE b == <<a>>
           e == <<z>>
           w == b \o t
<1>1. b \in Seq(T) /\ Len(b) = 1 /\ b[1] = a /\ e \in Seq(T) /\ Len(e) = 1 /\ e[1] = z
  OBVIOUS
<1> HIDE DEF b, e
<1>2. /\ w \in Seq(T) /\ Len(w) = 1 + Len(t) /\ Len(t) \in Nat
      /\ \A k \in 1 .. Len(b) : w[k] = b[k]
      /\ \A k \in 1 .. Len(t) : w[Len(b) + k] = t[k]
  <2>1. b \in Seq(T)
    BY <1>1
  <2>2. /\ w \in Seq(T) /\ Len(w) = Len(b) + Len(t) /\ Len(t) \in Nat
        /\ \A k \in 1 .. Len(b) : w[k] = b[k]
        /\ \A k \in 1 .. Len(t) : w[Len(b) + k] = t[k]
    BY <2>1, PiecesFacts
  <2> QED BY <1>1, <2>2
<1>3. s = w \o e
  BY DEF b, e
<1> HIDE DEF w
<1>4. /\ s \in Seq(T) /\ Len(s) = Len(w) + 1
      /\ \A k \in 1 .. Len(w) : s[k] = w[k]
      /\ \A k \in 1 .. Len(e) : s[Len(w) + k] = e[k]
  BY <1>1, <1>2, <1>3, PiecesFacts
<1>5. s[1] = a
  BY <1>1, <1>2, <1>4
<1>6. s[Len(t) + 2] = z
  <2>1. 1 \in 1 .. Len(e) /\ Len(w) + 1 = Len(t) + 2
    BY <1>1, <1>2
  <2>2. s[Len(w) + 1] = e[1]
    BY <1>4, <2>1
  <2> QED BY <1>1, <2>1, <2>2
<1>7. ASSUME NEW k \in 1 .. Len(t) PROVE s[k + 1] = t[k]
  <2>1. k + 1 \in 1 .. Len(w) /\ Len(b) + k = k + 1
    BY <1>1, <1>2
  <2>2. s[k + 1] = w[k + 1] /\ w[Len(b) + k] = t[k]
    BY <1>2, <1>4, <2>1
  <2> QED BY <2>1, <2>2
<1>8. Len(s) = Len(t) + 2
  BY <1>2, <1>4
<1> QED BY <1>2, <1>4, <1>5, <1>6, <1>7, <1>8

\* Which requests of a command store bytes.
LEMMA ScriptStores ==
  ASSUME Sizes, command \in CommandLines \cup {[name |-> "check"]}, Talks, ~Refused, AsSaid(command)
  PROVE  /\ Base \in CellAddresses /\ Data \in Seq(ByteValues) /\ Lead \in Nat
         /\ Len(Script) \in Nat /\ (Data # <<>> => Lead + Len(Data) <= Len(Script))
         /\ \A n \in Nat : n < Len(Script) =>
              IF Lead <= n /\ n < Lead + Len(Data)
                THEN Script[n + 1] = WrOne(Plus(Base, n - Lead), Data[n - Lead + 1])
                ELSE Script[n + 1].cmd \notin {CMD_MEM_WR, CMD_MEM_WRN}
<1> DEFINE acq == Cmd(CMD_ACQUIRE)
           rel == Cmd(CMD_RELEASE)
           Silent(r) == r.cmd \notin {CMD_MEM_WR, CMD_MEM_WRN}
<1>0. ByteValues \subseteq Nat
  BY LoopAssumption DEF ByteValues
<1>1. /\ acq \in Fitting /\ rel \in Fitting
      /\ Silent(acq) /\ Silent(rel) /\ Silent(Cmd(CMD_VERSION))
  BY BusFits DEF WithAddress
<1> HIDE DEF acq, rel
<1>2. ASSUME Lead = 1, Data = <<>>, Base \in CellAddresses, Len(Script) \in Nat,
             \A n \in 1 .. Len(Script) : Silent(Script[n])
      PROVE  /\ Data \in Seq(ByteValues) /\ Lead \in Nat
             /\ Len(Script) \in Nat /\ (Data # <<>> => Lead + Len(Data) <= Len(Script))
             /\ \A n \in Nat : n < Len(Script) =>
                  IF Lead <= n /\ n < Lead + Len(Data)
                    THEN Script[n + 1] = WrOne(Plus(Base, n - Lead), Data[n - Lead + 1])
                    ELSE Silent(Script[n + 1])
  <2>1. Len(Data) = 0 /\ Data \in Seq(ByteValues)
    BY <1>2
  <2>2. ASSUME NEW n \in Nat, n < Len(Script)
        PROVE  ~(Lead <= n /\ n < Lead + Len(Data)) /\ Silent(Script[n + 1])
    <3>1. n + 1 \in 1 .. Len(Script)
      BY <1>2, <2>2
    <3> QED BY <1>2, <2>1, <3>1
  <2> QED BY <1>2, <2>1, <2>2
<1>3. CASE command.name = "wr"
  <2>1. /\ command.addr \in CellAddresses /\ command.data \in Seq(ByteValues)
        /\ Len(command.data) = 1
    <3>1. Len(command.data) \in 1 .. MaxValues
      BY <1>3 DEF Refused
    <3>2. Len(command.data) <= 1 \/ Len(command.data) > MaxValues
      BY <1>3 DEF AsSaid
    <3>3. MaxValues \in Nat
      BY ClientAssumption
    <3> DEFINE n == Len(command.data)
    <3> HIDE DEF n
    <3>4. n \in 1 .. MaxValues /\ (n <= 1 \/ n > MaxValues)
      BY <3>1, <3>2 DEF n
    <3>5. n = 1
      BY <3>3, <3>4
    <3>6. Len(command.data) = 1
      BY <3>5 DEF n
    <3> QED BY <1>3, <3>6, LineFacts
  <2>2. /\ Lead = 0 /\ Base = command.addr /\ Data = command.data
        /\ Script = <<WrOne(command.addr, command.data[1])>>
    BY <1>3, <2>1 DEF Lead, Base, Data, Script, cmd_wr
  <2>4. Len(Script) = 1 /\ Script[1] = WrOne(command.addr, command.data[1])
    BY <2>2
  <2>5. Plus(command.addr, 0) = command.addr
    BY <2>1, PlusZero
  <2>6. ASSUME NEW n \in Nat, n < 1
        PROVE  /\ 0 <= n /\ n < 0 + 1
               /\ Script[n + 1] = WrOne(Plus(command.addr, n - 0), command.data[n - 0 + 1])
    <3>1. n = 0 /\ n - 0 = 0 /\ n + 1 = 1 /\ n - 0 + 1 = 1
      BY <2>6
    <3> QED BY <2>4, <2>5, <3>1
  <2>7. Base \in CellAddresses /\ Data \in Seq(ByteValues) /\ Lead \in Nat /\ Len(Data) = 1
    BY <2>1, <2>2
  <2>8. \A n \in Nat : n < Len(Script) =>
          /\ Lead <= n /\ n < Lead + Len(Data)
          /\ Script[n + 1] = WrOne(Plus(Base, n - Lead), Data[n - Lead + 1])
    BY <2>1, <2>2, <2>4, <2>6
  <2>9. Lead + Len(Data) <= Len(Script)
    BY <2>2, <2>4, <2>7
  <2> QED BY <2>4, <2>7, <2>8, <2>9
<1>4. CASE command.name \in {"rd", "pin", "acquire", "release", "check", "detach"}
  <2>1. Lead = 1 /\ Data = <<>> /\ Base \in CellAddresses
    BY <1>4, AddressIsNat DEF Lead, Data, Base
  <2>2. CASE command.name = "rd"
    <3>1. Script = <<cmd_rd>>
      BY <2>2 DEF Script
    <3>2. Silent(cmd_rd)
      BY Codes DEF cmd_rd, RdOne
    <3>3. Len(Script) \in Nat /\ \A n \in 1 .. Len(Script) : Silent(Script[n])
      BY <3>1, <3>2
    <3> QED BY <1>2, <2>1, <3>3
  <2>3. CASE command.name = "pin"
    <3>1. Script = <<cmd_pin(command.sub, command.pin)>>
      BY <2>3 DEF Script
    <3>2. Silent(cmd_pin(command.sub, command.pin))
      BY <2>3, LineFacts, PinFits DEF WithAddress
    <3>3. Len(Script) \in Nat /\ \A n \in 1 .. Len(Script) : Silent(Script[n])
      BY <3>1, <3>2
    <3> QED BY <1>2, <2>1, <3>3
  <2>4. CASE command.name \in {"acquire", "release", "check"}
    <3>1. \/ Script = <<acq>> \/ Script = <<rel>> \/ Script = <<Cmd(CMD_VERSION), rel>>
      BY <2>4 DEF Script, acq, rel
    <3>2. Len(Script) \in Nat /\ \A n \in 1 .. Len(Script) : Silent(Script[n])
      <4>1. CASE Script = <<acq>>
        BY <1>1, <4>1
      <4>2. CASE Script = <<rel>>
        BY <1>1, <4>2
      <4>3. CASE Script = <<Cmd(CMD_VERSION), rel>>
        BY <1>1, <4>3
      <4> QED BY <3>1, <4>1, <4>2, <4>3
    <3> QED BY <1>2, <2>1, <3>2
  <2>5. CASE command.name = "detach"
    <3>1. command.pins \in Seq(Nat) /\ Script = cmd_detach
      BY <2>5, LineFacts DEF Script
    <3>2. \A k \in DOMAIN command.pins : Silent(cmd_pin(SUBCMD_GET, command.pins[k]))
      BY <3>1, PinFits DEF WithAddress
    <3>3. Len(Script) = Len(command.pins) /\ Len(command.pins) \in Nat
      BY <3>1 DEF cmd_detach
    <3>4. \A n \in 1 .. Len(Script) : Silent(Script[n])
      BY <3>1, <3>2, <3>3 DEF cmd_detach
    <3> QED BY <1>2, <2>1, <3>3, <3>4
  <2> QED BY <1>4, <2>2, <2>3, <2>4, <2>5
<1>5. ASSUME NEW t \in Seq(Fitting), Script = <<acq>> \o t \o <<rel>>,
             Lead = 1, Data \in Seq(ByteValues), Base \in CellAddresses, Len(Data) <= Len(t),
             \A k \in 1 .. Len(t) :
               IF k <= Len(Data) THEN t[k] = WrOne(Plus(Base, k - 1), Data[k]) ELSE Silent(t[k])
      PROVE  /\ Base \in CellAddresses /\ Data \in Seq(ByteValues) /\ Lead \in Nat
             /\ Len(Script) \in Nat /\ Lead + Len(Data) <= Len(Script)
             /\ \A n \in Nat : n < Len(Script) =>
                  IF Lead <= n /\ n < Lead + Len(Data)
                    THEN Script[n + 1] = WrOne(Plus(Base, n - Lead), Data[n - Lead + 1])
                    ELSE Silent(Script[n + 1])
  <2>1. /\ Len(Script) = Len(t) + 2 /\ Len(t) \in Nat /\ Len(Data) \in Nat
        /\ Script[1] = acq /\ Script[Len(t) + 2] = rel
        /\ \A k \in 1 .. Len(t) : Script[k + 1] = t[k]
    BY <1>1, <1>5, BetweenFacts
  <2>2. ASSUME NEW n \in Nat, n < Len(Script)
        PROVE  IF 1 <= n /\ n < 1 + Len(Data)
                 THEN Script[n + 1] = WrOne(Plus(Base, n - 1), Data[n - 1 + 1])
                 ELSE Silent(Script[n + 1])
    <3>1. CASE n = 0
      <4>1. ~(1 <= n) /\ n + 1 = 1
        BY <3>1
      <4> QED BY <1>1, <2>1, <4>1
    <3>2. CASE n = Len(t) + 1
      <4>1. ~(n < 1 + Len(Data)) /\ n + 1 = Len(t) + 2
        BY <1>5, <2>1, <3>2
      <4> QED BY <1>1, <2>1, <4>1
    <3>3. CASE n \in 1 .. Len(t)
      <4>1. Script[n + 1] = t[n] /\ 1 <= n /\ (n < 1 + Len(Data) <=> n <= Len(Data)) /\ n - 1 + 1 = n
        BY <2>1, <3>3
      <4>2. IF n <= Len(Data) THEN t[n] = WrOne(Plus(Base, n - 1), Data[n]) ELSE Silent(t[n])
        BY <1>5, <3>3
      <4> HIDE DEF Silent
      <4> QED BY <4>1, <4>2
    <3>4. n = 0 \/ n = Len(t) + 1 \/ n \in 1 .. Len(t)
      BY <2>1, <2>2
    <3> QED BY <3>1, <3>2, <3>3, <3>4
  <2> HIDE DEF Silent
  <2>3. \A n \in Nat : n < Len(Script) =>
          IF Lead <= n /\ n < Lead + Len(Data)
            THEN Script[n + 1] = WrOne(Plus(Base, n - Lead), Data[n - Lead + 1])
            ELSE Silent(Script[n + 1])
    BY <1>5, <2>2
  <2>4. Lead + Len(Data) <= Len(Script) /\ Data \in Seq(ByteValues) /\ Base \in CellAddresses /\ Lead \in Nat
    BY <1>5, <2>1
  <2> QED BY <2>1, <2>3, <2>4
<1>6. CASE command.name = "load"
  <2>1. command.addr \in CellAddresses /\ command.file \in Seq(ByteValues) /\ Len(command.file) \in Nat
    BY <1>6, LineFacts, ClientAssumption
  <2> DEFINE t == [k \in DOMAIN command.file |-> WrOne(Plus(command.addr, k - 1), command.file[k])]
  <2>2. ASSUME NEW k \in 1 .. Len(command.file)
        PROVE  WrOne(Plus(command.addr, k - 1), command.file[k]) \in Fitting /\ command.file[k] \in ByteValues
    <3>1. k - 1 \in Nat
      BY <2>1
    <3>2. command.addr \in Nat
      BY <2>1, AddressIsNat
    <3>3. command.file[k] \in ByteValues
      BY <2>1, ElementOfSeq
    <3> QED BY <1>0, <3>1, <3>2, <3>3, PlusFacts, MemFits
  <2>3. /\ t \in Seq(Fitting) /\ Len(t) = Len(command.file)
        /\ \A k \in 1 .. Len(t) : t[k] = WrOne(Plus(command.addr, k - 1), command.file[k])
    BY <2>1, <2>2
  <2>4. Script = <<acq>> \o t \o <<rel>>
    BY <1>6 DEF Script, cmd_load, acq, rel
  <2>5. Lead = 1 /\ Data = command.file /\ Base = command.addr
    BY <1>6 DEF Lead, Data, Base
  <2>6. command.file \in Seq(ByteValues)
    BY <2>1, <2>2
  <2> HIDE DEF t
  <2>7. \A k \in 1 .. Len(t) :
          IF k <= Len(Data) THEN t[k] = WrOne(Plus(Base, k - 1), Data[k]) ELSE Silent(t[k])
    BY <2>1, <2>3, <2>5
  <2>8. Len(Data) <= Len(t) /\ Data \in Seq(ByteValues) /\ Base \in CellAddresses
    BY <2>1, <2>3, <2>5, <2>6
  <2>9. /\ Lead \in Nat /\ Len(Script) \in Nat /\ Lead + Len(Data) <= Len(Script)
        /\ \A n \in Nat : n < Len(Script) =>
             IF Lead <= n /\ n < Lead + Len(Data)
               THEN Script[n + 1] = WrOne(Plus(Base, n - Lead), Data[n - Lead + 1])
               ELSE Silent(Script[n + 1])
    <3> HIDE DEF Silent
    <3> QED BY <1>5, <2>3, <2>4, <2>5, <2>7, <2>8
  <2> QED BY <2>8, <2>9
<1>7. CASE command.name = "memtest"
  <2> DEFINE cells == CellsOf(command.start, command.end)
             t == [k \in DOMAIN cells |-> WrOne(cells[k], TestValue[k])]
             u == [k \in DOMAIN cells |-> RdOne(cells[k])]
             d == [k \in DOMAIN cells |-> TestValue[k]]
             w == t \o u
  <2>1. /\ cells \in Seq(CellAddresses) /\ Len(cells) \in Nat /\ command.start \in CellAddresses
        /\ \A k \in 1 .. Len(cells) : cells[k] = Plus(command.start, k - 1)
    <3>1. command.start \in CellAddresses /\ command.end \in CellAddresses
      BY <1>7, LineFacts
    <3>2. cells \in Seq(CellAddresses) /\ \A k \in 1 .. Len(cells) : cells[k] = Plus(command.start, k - 1)
      BY <3>1, CellsFacts
    <3> HIDE DEF cells
    <3> QED BY <3>1, <3>2
  <2>2. Script = <<acq>> \o t \o u \o <<rel>>
    BY <1>7 DEF Script, cmd_memtest, acq, rel
  <2>3. Lead = 1 /\ Data = d /\ Base = command.start
    BY <1>7 DEF Lead, Data, Base
  <2> HIDE DEF cells
  <2>4. ASSUME NEW k \in 1 .. Len(cells)
        PROVE  /\ WrOne(cells[k], TestValue[k]) \in Fitting /\ RdOne(cells[k]) \in Fitting
               /\ Silent(RdOne(cells[k])) /\ TestValue[k] \in ByteValues
    <3>1. cells[k] \in CellAddresses /\ k \in Nat
      BY <2>1
    <3>2. TestValue[k] \in ByteValues
      BY <3>1, TestValueIsByte
    <3> QED BY <1>0, <3>1, <3>2, MemFits, Codes
  <2>5. t \in Seq(Fitting) /\ Len(t) = Len(cells) /\ \A k \in 1 .. Len(t) : t[k] = WrOne(cells[k], TestValue[k])
    BY <2>1, <2>4
  <2>6. u \in Seq(Fitting) /\ Len(u) = Len(cells) /\ \A k \in 1 .. Len(u) : u[k] = RdOne(cells[k])
    BY <2>1, <2>4
  <2>7. d \in Seq(ByteValues) /\ Len(d) = Len(cells) /\ \A k \in 1 .. Len(d) : d[k] = TestValue[k]
    BY <2>1, <2>4
  <2> HIDE DEF t, u, d
  <2>8. /\ w \in Seq(Fitting) /\ Len(w) = Len(cells) + Len(cells)
        /\ \A k \in 1 .. Len(t) : w[k] = t[k]
        /\ \A k \in 1 .. Len(u) : w[Len(t) + k] = u[k]
    <3>1. t \in Seq(Fitting) /\ u \in Seq(Fitting)
      BY <2>5, <2>6
    <3>2. /\ w \in Seq(Fitting) /\ Len(w) = Len(t) + Len(u)
          /\ \A k \in 1 .. Len(t) : w[k] = t[k]
          /\ \A k \in 1 .. Len(u) : w[Len(t) + k] = u[k]
      BY <3>1, PiecesFacts
    <3> QED BY <2>5, <2>6, <3>2
  <2>9. Script = <<acq>> \o w \o <<rel>>
    <3>1. <<acq>> \in Seq(Fitting)
      BY <1>1
    <3>2. (<<acq>> \o t) \o u = <<acq>> \o (t \o u)
      BY <2>5, <2>6, <3>1, ConcatAssociative
    <3> QED BY <2>2, <3>2
  <2> HIDE DEF w
  <2>10. ASSUME NEW k \in 1 .. Len(w)
         PROVE  IF k <= Len(d) THEN w[k] = WrOne(Plus(command.start, k - 1), d[k]) ELSE Silent(w[k])
    <3>1. CASE k <= Len(d)
      <4>1. k \in 1 .. Len(cells)
        BY <2>1, <2>7, <2>8, <3>1
      <4> QED BY <2>1, <2>5, <2>7, <2>8, <3>1, <4>1
    <3>2. CASE ~(k <= Len(d))
      <4>1. k - Len(t) \in 1 .. Len(cells) /\ Len(t) + (k - Len(t)) = k
        BY <2>1, <2>5, <2>7, <2>8, <3>2
      <4>2. w[k] = RdOne(cells[k - Len(t)])
        BY <2>6, <2>8, <4>1
      <4>3. Silent(RdOne(cells[k - Len(t)]))
        BY <2>4, <4>1
      <4> QED BY <3>2, <4>2, <4>3
    <3> QED BY <3>1, <3>2
  <2>11. \A k \in 1 .. Len(w) :
           IF k <= Len(Data) THEN w[k] = WrOne(Plus(Base, k - 1), Data[k]) ELSE Silent(w[k])
    BY <2>3, <2>10
  <2>12. Len(Data) <= Len(w) /\ Data \in Seq(ByteValues) /\ Base \in CellAddresses
    BY <2>1, <2>3, <2>7, <2>8
  <2>13. w \in Seq(Fitting)
    BY <2>8
  <2>14. /\ Lead \in Nat /\ Len(Script) \in Nat /\ Lead + Len(Data) <= Len(Script)
        /\ \A n \in Nat : n < Len(Script) =>
             IF Lead <= n /\ n < Lead + Len(Data)
               THEN Script[n + 1] = WrOne(Plus(Base, n - Lead), Data[n - Lead + 1])
               ELSE Silent(Script[n + 1])
    <3> HIDE DEF Silent
    <3> QED BY <1>5, <2>3, <2>9, <2>11, <2>12, <2>13
  <2> QED BY <2>12, <2>14
<1> QED BY <1>3, <1>4, <1>6, <1>7, LineFacts DEF Talks

\* Request by request a command stores what it is to store.
LEMMA StoredFacts ==
  ASSUME Sizes, command \in CommandLines \cup {[name |-> "check"]}, Talks, ~Refused, AsSaid(command),
         before \in Memories
  PROVE  /\ Stored(0) = before
         /\ Len(Script) \in Nat /\ Stored(Len(Script)) = Intended
         /\ \A n \in Nat : n < Len(Script) =>
              /\ Script[n + 1].cmd # CMD_MEM_WRN
              /\ Stored(n + 1) = IF Script[n + 1].cmd = CMD_MEM_WR
                                   THEN Write(Stored(n), Script[n + 1].addr, Script[n + 1].data)
                                   ELSE Stored(n)
<1>1. /\ Base \in CellAddresses /\ Data \in Seq(ByteValues) /\ Lead \in Nat
      /\ Len(Script) \in Nat /\ (Data # <<>> => Lead + Len(Data) <= Len(Script))
      /\ \A n \in Nat : n < Len(Script) =>
           IF Lead <= n /\ n < Lead + Len(Data)
             THEN Script[n + 1] = WrOne(Plus(Base, n - Lead), Data[n - Lead + 1])
             ELSE Script[n + 1].cmd \notin {CMD_MEM_WR, CMD_MEM_WRN}
  BY ScriptStores
<1>2. Len(Data) \in Nat /\ (Data = <<>> => Len(Data) = 0)
  BY <1>1
<1> DEFINE L == Lead
           B == Base
           D == Data
           N == Len(D)
           W(n) == Written(n)
<1>3. \A n : W(n) = IF n <= L THEN 0 ELSE IF n - L < N THEN n - L ELSE N
  BY DEF Written
<1>4. \A n : Stored(n) = Write(before, B, SubSeq(D, 1, W(n)))
  BY DEF Stored
<1>5. B \in CellAddresses /\ D \in Seq(ByteValues) /\ L \in Nat /\ N \in Nat /\ N = Len(D)
  BY <1>1, <1>2
<1>6. Intended = Write(before, B, D)
  <2>1. CASE command.name \in {"wr", "load", "memtest"}
    BY <2>1 DEF Intended, Base, Data
  <2>2. CASE command.name \notin {"wr", "load", "memtest"}
    <3>1. Intended = before /\ D = <<>>
      BY <2>2 DEF Intended, Data
    <3> QED BY <1>5, <3>1, WriteNothing
  <2> QED BY <2>1, <2>2
<1>7. \A n \in Nat : n < Len(Script) =>
           IF L <= n /\ n < L + N
             THEN Script[n + 1] = WrOne(Plus(B, n - L), D[n - L + 1])
             ELSE Script[n + 1].cmd \notin {CMD_MEM_WR, CMD_MEM_WRN}
  BY <1>1
<1>8. Len(Script) \in Nat /\ (N # 0 => L + N <= Len(Script))
  BY <1>1, <1>2
<1> HIDE DEF L, B, D, N, W
<1>9. \A k \in 0 .. N : /\ SubSeq(D, 1, k) \in Seq(ByteValues) /\ Len(SubSeq(D, 1, k)) = k
  <2> SUFFICES ASSUME NEW k \in 0 .. N
               PROVE  SubSeq(D, 1, k) \in Seq(ByteValues) /\ Len(SubSeq(D, 1, k)) = k
    OBVIOUS
  <2>1. k \in Nat /\ k <= Len(D) /\ 1 \in Nat \ {0} /\ 1 <= k + 1 /\ k - 1 + 1 = k
    BY <1>5
  <2>2. SubSeq(D, 1, k) \in Seq(ByteValues) /\ Len(SubSeq(D, 1, k)) = k - 1 + 1
    BY <1>5, <2>1, CutFacts
  <2> QED BY <2>1, <2>2
<1>10. Stored(0) = before
  <2>1. W(0) = 0 /\ SubSeq(D, 1, 0) = <<>>
    BY <1>3, <1>5
  <2> QED BY <1>4, <1>5, <2>1, WriteNothing
<1>11. Stored(Len(Script)) = Intended
  <2>1. W(Len(Script)) = N
    BY <1>3, <1>5, <1>8
  <2>2. SubSeq(D, 1, N) = D
    BY <1>5, SubSeqFull
  <2> QED BY <1>4, <1>6, <2>1, <2>2
<1>12. ASSUME NEW n \in Nat, n < Len(Script)
       PROVE  /\ Script[n + 1].cmd # CMD_MEM_WRN
              /\ Stored(n + 1) = IF Script[n + 1].cmd = CMD_MEM_WR
                                   THEN Write(Stored(n), Script[n + 1].addr, Script[n + 1].data)
                                   ELSE Stored(n)
  <2>1. CASE L <= n /\ n < L + N
    <3> DEFINE k == n - L
    <3>1. /\ k \in Nat /\ k < N /\ k + 1 \in 1 .. Len(D) /\ k \in 0 .. N
          /\ W(n) = k /\ W(n + 1) = k + 1
      <4>1. L \in Nat /\ N \in Nat /\ N = Len(D) /\ n \in Nat /\ L <= n /\ n < L + N
        BY <1>5, <2>1
      <4>2. k \in Nat /\ k < N /\ n = L + k
        BY <4>1
      <4>3. W(n) = IF n <= L THEN 0 ELSE IF n - L < N THEN n - L ELSE N
        BY <1>3
      <4> DEFINE m == n + 1
      <4>4. m \in Nat /\ ~(m <= L) /\ m - L = k + 1
        BY <4>1, <4>2
      <4> HIDE DEF k, m
      <4>5. k + 1 \in 1 .. Len(D) /\ k \in 0 .. N
        BY <4>1, <4>2
      <4>6. W(n) = k
        BY <4>1, <4>2, <4>3
      <4>7. W(m) = IF m <= L THEN 0 ELSE IF m - L < N THEN m - L ELSE N
        BY <1>3
      <4>8. W(m) = k + 1
        BY <4>1, <4>2, <4>4, <4>7
      <4>9. W(n + 1) = k + 1
        BY <4>8 DEF m
      <4> QED BY <4>2, <4>5, <4>6, <4>9
    <3>2. Script[n + 1] = WrOne(Plus(B, k), D[k + 1])
      BY <1>7, <1>12, <2>1
    <3> HIDE DEF k
    <3> DEFINE d == SubSeq(D, 1, k)
               b == D[k + 1]
               r == WrOne(Plus(B, k), b)
    <3>3. d \in Seq(ByteValues) /\ Len(d) = k /\ b \in ByteValues
      BY <1>5, <1>9, <3>1
    <3>4. SubSeq(D, 1, k + 1) = Append(d, b)
      <4> DEFINE u == SubSeq(D, 1, k + 1)
                 v == Append(d, b)
      <4>1. k + 1 \in 0 .. N /\ k + 1 - 1 + 1 = k + 1 /\ k - 1 + 1 = k
        BY <1>5, <3>1
      <4>2. u \in Seq(ByteValues) /\ Len(u) = k + 1
        BY <1>9, <4>1
      <4>3. /\ v \in Seq(ByteValues) /\ Len(v) = k + 1
            /\ \A j \in 1 .. k : v[j] = d[j]
            /\ v[k + 1] = b
        BY <3>3, AppendProperties
      <4>4. \A j \in 1 .. k + 1 : u[j] = D[j]
        BY <1>5, <3>1
      <4>5. \A j \in 1 .. k : d[j] = D[j]
        BY <1>5, <3>1
      <4> HIDE DEF u, v
      <4>6. \A j \in 1 .. Len(u) : u[j] = v[j]
        BY <3>1, <4>2, <4>3, <4>4, <4>5 DEF b
      <4>7. u = v
        BY <4>2, <4>3, <4>6, SeqEqual
      <4> QED BY <4>7 DEF u, v
    <3>5. r.cmd = CMD_MEM_WR /\ r.addr = Plus(B, k) /\ r.data = <<b>>
      BY DEF WrOne
    <3> HIDE DEF d, b, r
    <3>6. Write(Write(before, B, d), Plus(B, Len(d)), <<b>>) = Write(before, B, Append(d, b))
      BY <1>5, <3>3, WriteAppend
    <3>7. Write(Stored(n), r.addr, r.data) = Write(Stored(n), Plus(B, k), <<b>>)
      BY <3>5
    <3>8. Stored(n) = Write(before, B, d) /\ Stored(n + 1) = Write(before, B, Append(d, b))
      BY <1>4, <3>1, <3>4 DEF d
    <3>9. Script[n + 1] = r
      BY <3>2 DEF r, b
    <3> QED BY <3>3, <3>5, <3>6, <3>7, <3>8, <3>9, Codes
  <2>2. CASE ~(L <= n /\ n < L + N)
    <3>1. Script[n + 1].cmd \notin {CMD_MEM_WR, CMD_MEM_WRN}
      BY <1>7, <1>12, <2>2
    <3>2. W(n + 1) = W(n)
      BY <1>3, <1>5, <2>2
    <3>3. Stored(n + 1) = Stored(n)
      BY <1>4, <3>2
    <3> QED BY <3>1, <3>3
  <2> QED BY <2>1, <2>2
<1> QED BY <1>8, <1>10, <1>11, <1>12

\* A load and a memtest store and read between an acquire and a release.
LEMMA Between ==
  ASSUME Sizes, command \in CommandLines \cup {[name |-> "check"]}, command.name \in {"load", "memtest"}
  PROVE  \E t \in Seq(Fitting) :
           /\ Script = <<Cmd(CMD_ACQUIRE)>> \o t \o <<Cmd(CMD_RELEASE)>>
           /\ \A k \in 1 .. Len(t) : t[k].cmd \in WithAddress
<1> DEFINE acq == Cmd(CMD_ACQUIRE)
           rel == Cmd(CMD_RELEASE)
<1>1. acq \in Fitting
  BY BusFits
<1> HIDE DEF acq, rel
<1>2. ASSUME NEW a \in CellAddresses, NEW b \in ByteValues
      PROVE  /\ WrOne(a, b) \in Fitting /\ WrOne(a, b).cmd \in WithAddress
             /\ RdOne(a) \in Fitting /\ RdOne(a).cmd \in WithAddress
  <2>1. WrOne(a, b).cmd = CMD_MEM_WR /\ RdOne(a).cmd = CMD_MEM_RD
    BY DEF WrOne, RdOne
  <2> QED BY <2>1, MemFits DEF WithAddress
<1>3. CASE command.name = "load"
  <2>1. command.addr \in CellAddresses /\ command.file \in Seq(ByteValues) /\ Len(command.file) \in Nat
    BY <1>3, LineFacts, ClientAssumption
  <2> DEFINE t == [k \in DOMAIN command.file |-> WrOne(Plus(command.addr, k - 1), command.file[k])]
  <2>2. ASSUME NEW k \in 1 .. Len(command.file)
        PROVE  /\ WrOne(Plus(command.addr, k - 1), command.file[k]) \in Fitting
               /\ WrOne(Plus(command.addr, k - 1), command.file[k]).cmd \in WithAddress
    <3>1. k - 1 \in Nat
      BY <2>1
    <3>2. command.addr \in Nat
      BY <2>1, AddressIsNat
    <3>3. command.file[k] \in ByteValues
      BY <2>1, ElementOfSeq
    <3> QED BY <1>2, <3>1, <3>2, <3>3, PlusFacts
  <2>5. t \in Seq(Fitting) /\ Len(t) = Len(command.file)
    BY <2>1, <2>2
  <2>6. ASSUME NEW k \in 1 .. Len(t) PROVE t[k].cmd \in WithAddress
    <3>1. k \in 1 .. Len(command.file)
      BY <2>5
    <3>2. k \in DOMAIN command.file
      BY <2>1, <3>1
    <3>3. t[k] = WrOne(Plus(command.addr, k - 1), command.file[k])
      BY <3>2
    <3> QED BY <2>2, <3>1, <3>3
  <2>3. t \in Seq(Fitting) /\ \A k \in 1 .. Len(t) : t[k].cmd \in WithAddress
    BY <2>5, <2>6
  <2>4. Script = <<acq>> \o t \o <<rel>>
    BY <1>3 DEF Script, cmd_load, acq, rel
  <2> QED BY <2>3, <2>4 DEF acq, rel
<1>4. CASE command.name = "memtest"
  <2> DEFINE cells == CellsOf(command.start, command.end)
             t == [k \in DOMAIN cells |-> WrOne(cells[k], TestValue[k])]
             u == [k \in DOMAIN cells |-> RdOne(cells[k])]
             w == t \o u
  <2>1. cells \in Seq(CellAddresses) /\ Len(cells) \in Nat
    <3>1. cells \in Seq(CellAddresses)
      BY <1>4, LineFacts, CellsFacts
    <3> HIDE DEF cells
    <3> QED BY <3>1
  <2>2. Script = <<acq>> \o t \o u \o <<rel>>
    BY <1>4 DEF Script, cmd_memtest, acq, rel
  <2> HIDE DEF cells
  <2>3. ASSUME NEW k \in 1 .. Len(cells)
        PROVE  /\ WrOne(cells[k], TestValue[k]) \in Fitting /\ WrOne(cells[k], TestValue[k]).cmd \in WithAddress
               /\ RdOne(cells[k]) \in Fitting /\ RdOne(cells[k]).cmd \in WithAddress
    <3>1. cells[k] \in CellAddresses /\ k \in Nat
      BY <2>1
    <3> QED BY <1>2, <3>1, TestValueIsByte
  <2>4. t \in Seq(Fitting) /\ \A k \in 1 .. Len(t) : t[k].cmd \in WithAddress
    BY <2>1, <2>3
  <2>5. u \in Seq(Fitting) /\ \A k \in 1 .. Len(u) : u[k].cmd \in WithAddress
    BY <2>1, <2>3
  <2> HIDE DEF t, u
  <2>6. t \in Seq(Fitting) /\ u \in Seq(Fitting)
    BY <2>4, <2>5
  <2>7. /\ w \in Seq(Fitting) /\ Len(w) = Len(t) + Len(u) /\ Len(t) \in Nat /\ Len(u) \in Nat
        /\ \A k \in 1 .. Len(t) : w[k] = t[k]
        /\ \A k \in 1 .. Len(u) : w[Len(t) + k] = u[k]
    BY <2>6, PiecesFacts
  <2>8. Script = <<acq>> \o w \o <<rel>>
    <3>1. <<acq>> \in Seq(Fitting)
      BY <1>1
    <3>2. (<<acq>> \o t) \o u = <<acq>> \o (t \o u)
      BY <2>6, <3>1, ConcatAssociative
    <3> QED BY <2>2, <3>2
  <2> HIDE DEF w
  <2>9. ASSUME NEW k \in 1 .. Len(w) PROVE w[k].cmd \in WithAddress
    <3>1. CASE k <= Len(t)
      <4>1. k \in 1 .. Len(t)
        BY <2>7, <3>1
      <4> QED BY <2>4, <2>7, <4>1
    <3>2. CASE ~(k <= Len(t))
      <4>1. k - Len(t) \in 1 .. Len(u) /\ Len(t) + (k - Len(t)) = k
        BY <2>7, <3>2
      <4>2. w[Len(t) + (k - Len(t))] = u[k - Len(t)]
        BY <2>7, <4>1
      <4> QED BY <2>5, <4>1, <4>2
    <3> QED BY <3>1, <3>2
  <2> QED BY <2>7, <2>8, <2>9 DEF acq, rel
<1> QED BY <1>3, <1>4

\* What the requests of a command are for.
LEMMA ScriptKinds ==
  ASSUME Sizes, command \in CommandLines \cup {[name |-> "check"]}, Talks, ~Refused,
         NEW n \in Nat, n < Len(Script)
  PROVE  LET c == Script[n + 1].cmd
         IN  /\ UsesPin(c) => command.name \in {"pin", "detach"}
             /\ SetsLow(c) => Len(Script) = 1
             /\ UsesMemory(c) => /\ command.name \in {"wr", "rd", "load", "memtest"}
                                 /\ ~OpensItself(Script[n + 1])
             /\ command.name \in {"wr", "rd"} => UsesMemory(c)
             /\ command.name \in {"load", "memtest"} =>
                  /\ n = 0 => c = CMD_ACQUIRE
                  /\ 1 <= n /\ n + 1 < Len(Script) => UsesMemory(c)
<1> DEFINE r == Script[n + 1]
           c == r.cmd
<1>1. /\ UsesMemory(c) <=> c \in WithAddress
      /\ UsesMemory(c) => Batch(c) /\ ~OpensItself(r)
      /\ Batch(c) => ~UsesPin(c) /\ ~SetsLow(c)
  <2>1. ASSUME c \in WithAddress PROVE c \notin {CMD_ACQUIRE, CMD_RELEASE} /\ Batch(c)
    BY <2>1, Codes DEF WithAddress, CMD_ACQUIRE, CMD_RELEASE, CMD_MEM_WR, CMD_MEM_RD,
         CMD_MEM_WRN, CMD_MEM_RDN
  <2>2. UsesMemory(c) <=> c \in WithAddress
    BY DEF UsesMemory, WithAddress
  <2> QED BY <2>1, <2>2 DEF OpensItself, UsesPin, SetsLow
<1>2. \A x \in {CMD_VERSION, CMD_ACQUIRE, CMD_RELEASE} : Batch(x) /\ x \notin WithAddress
  BY BusFits DEF Batch, CMD_VERSION, CMD_ACQUIRE, CMD_RELEASE
<1>3. CASE command.name \in {"wr", "rd"}
  <2>1. /\ \/ Script = <<cmd_wr>>
           \/ Script = <<cmd_rd>>
        /\ cmd_wr.cmd \in WithAddress \/ command.name = "rd"
        /\ cmd_rd.cmd \in WithAddress
        /\ command.name = "rd" => Script = <<cmd_rd>>
    BY <1>3 DEF Script, cmd_wr, cmd_rd, WrOne, RdOne, WithAddress
  <2>2. n = 0 /\ n + 1 = 1
    BY <2>1
  <2>3. c \in WithAddress
    BY <2>1, <2>2
  <2> QED BY <1>1, <1>3, <2>3
<1>4. CASE command.name = "pin"
  <2>1. Script = <<cmd_pin(command.sub, command.pin)>>
    BY <1>4 DEF Script
  <2>2. cmd_pin(command.sub, command.pin).cmd \notin WithAddress
    BY <1>4, LineFacts, PinFits
  <2>3. n = 0 /\ Len(Script) = 1 /\ r = cmd_pin(command.sub, command.pin)
    BY <2>1
  <2> QED BY <1>1, <1>4, <2>2, <2>3
<1>5. CASE command.name \in {"acquire", "release", "check"}
  <2>1. c \in {CMD_VERSION, CMD_ACQUIRE, CMD_RELEASE}
    <3>1. CASE command.name \in {"acquire", "release"}
      <4>1. Script = <<Cmd(CMD_ACQUIRE)>> \/ Script = <<Cmd(CMD_RELEASE)>>
        BY <3>1 DEF Script
      <4>4. Len(Script) = 1
        BY <4>1
      <4>2. n = 0
        BY <4>4
      <4>3. r = Cmd(CMD_ACQUIRE) \/ r = Cmd(CMD_RELEASE)
        BY <4>1, <4>2
      <4> QED BY <4>3, BusFits
    <3>2. CASE command.name = "check"
      <4>1. Script = <<Cmd(CMD_VERSION), Cmd(CMD_RELEASE)>>
        BY <3>2 DEF Script
      <4>4. Len(Script) = 2
        BY <4>1
      <4>2. n = 0 \/ n = 1
        BY <4>4
      <4>3. r = Cmd(CMD_VERSION) \/ r = Cmd(CMD_RELEASE)
        BY <4>1, <4>2
      <4> QED BY <4>3, BusFits
    <3> QED BY <1>5, <3>1, <3>2
  <2>2. Batch(c) /\ c \notin WithAddress
    BY <1>2, <2>1
  <2> QED BY <1>1, <1>5, <2>2
<1>6. CASE command.name = "detach"
  <2>1. command.pins \in Seq(Nat) /\ Script = cmd_detach /\ Len(command.pins) \in Nat
    BY <1>6, LineFacts DEF Script
  <2>2. Len(Script) = Len(command.pins) /\ n + 1 \in 1 .. Len(command.pins)
    BY <2>1 DEF cmd_detach
  <2>3. r = cmd_pin(SUBCMD_GET, command.pins[n + 1]) /\ command.pins[n + 1] \in Nat
    BY <2>1, <2>2 DEF cmd_detach
  <2> DEFINE p == command.pins[n + 1]
  <2>4. c \notin WithAddress
    BY <2>3, PinFits
  <2>5. c = 8 * p + SUBCMD_GET /\ p \in Nat
    BY <2>3 DEF cmd_pin, Cmd
  <2> HIDE DEF p, c
  <2>6. ~SetsLow(c)
    BY <2>5 DEF SetsLow, Subcommand, SUBCMD_GET, SUBCMD_SET_LO
  <2> QED BY <1>1, <1>6, <2>4, <2>6 DEF c
<1>7. CASE command.name \in {"load", "memtest"}
  <2>1. PICK t \in Seq(Fitting) : /\ Script = <<Cmd(CMD_ACQUIRE)>> \o t \o <<Cmd(CMD_RELEASE)>>
                                  /\ \A k \in 1 .. Len(t) : t[k].cmd \in WithAddress
    BY <1>7, Between
  <2>2. Cmd(CMD_ACQUIRE) \in Fitting /\ Cmd(CMD_RELEASE) \in Fitting
    BY BusFits
  <2>3. /\ Len(Script) = Len(t) + 2 /\ Len(t) \in Nat
        /\ Script[1] = Cmd(CMD_ACQUIRE) /\ Script[Len(t) + 2] = Cmd(CMD_RELEASE)
        /\ \A k \in 1 .. Len(t) : Script[k + 1] = t[k]
    BY <2>1, <2>2, BetweenFacts
  <2>4. CASE n = 0
    <3>1. c = CMD_ACQUIRE
      BY <2>3, <2>4, BusFits
    <3> QED BY <1>1, <1>2, <1>7, <2>4, <3>1
  <2>5. CASE n = Len(t) + 1
    <3>1. n + 1 = Len(t) + 2
      BY <2>3, <2>5
    <3>2. c = CMD_RELEASE
      BY <2>3, <3>1, BusFits
    <3>3. n # 0 /\ ~(n + 1 < Len(Script))
      BY <2>3, <3>1
    <3> QED BY <1>1, <1>2, <1>7, <3>2, <3>3
  <2>6. CASE n \in 1 .. Len(t)
    <3>1. c \in WithAddress /\ n # 0
      BY <2>1, <2>3, <2>6
    <3> QED BY <1>1, <1>7, <3>1
  <2>7. n = 0 \/ n = Len(t) + 1 \/ n \in 1 .. Len(t)
    BY <2>3
  <2> QED BY <2>4, <2>5, <2>6, <2>7
<1> QED BY <1>3, <1>4, <1>5, <1>6, <1>7, LineFacts DEF Talks

---------------------------------------------------------------------------
(* The line is clean between requests.                                     *)

\* The board keeps its place while nothing happens to it.
LEMMA BoardSame ==
  ASSUME LoopInv, BusInv, UNCHANGED board
  PROVE  LoopInv' /\ BusInv' /\ UNCHANGED <<mem, pending, replies, output, high, regime>>
<1>1. UNCHANGED <<mem, pending, replies, stream, recvbuf, nbytes, i, pins>>
  BY DEF board
<1>2. Received(i, nbytes - i)' = Received(i, nbytes - i) /\ Bytes(pending)' = Bytes(pending)
  BY <1>1 DEF Received, Bytes
<1>3. LoopInv'
  BY <1>1, <1>2 DEF LoopInv
<1>4. BusInv'
  BY <1>1, BusSame
<1> QED BY <1>1, <1>3, <1>4 DEF pins

\* A board that has no request has no byte of one.
LEMMA BoardIdle ==
  ASSUME LoopInv, pending = <<>>
  PROVE  stream = <<>> /\ i = nbytes
<1>1. pending \in Seq(WellFormed) /\ i \in Nat /\ nbytes \in Nat /\ i <= nbytes
  BY DEF LoopInv
<1>2. Bytes(pending) = <<>>
  BY <1>1, BytesFacts
<1>3. stream = <<>>
  BY <1>2 DEF LoopInv
<1>4. ASSUME i < nbytes PROVE FALSE
  BY <1>4, RequestInPlace
<1> QED BY <1>1, <1>3, <1>4

\* A command that does not wait leaves the line alone.
LEMMA LineStays ==
  ASSUME LineInv, UNCHANGED board, command' = command, script' \in Seq(Fitting),
         pc \in {"start", "send"}, pc' # "await"
  PROVE  LineInv'
<1>1. LoopInv' /\ BusInv' /\ UNCHANGED <<mem, pending, replies, regime>>
  BY BoardSame DEF LineInv
<1>2. FitsPacket(command)'
  BY DEF LineInv, FitsPacket
<1> QED BY <1>1, <1>2 DEF LineInv

\* What the board does between two requests and during one.
LEMMA LineBoard ==
  ASSUME LineInv, Board
  PROVE  LineInv'
<1>1. UNCHANGED <<pc, command, script>>
  BY DEF Board, client
<1>2. FitsPacket(command)'
  BY <1>1 DEF LineInv, FitsPacket
<1>3. CASE Receive
  <2>1. LoopInv' /\ UNCHANGED <<mem, pending, replies, pins>>
    BY <1>3, ReceiveStep DEF LineInv
  <2>2. BusInv' /\ regime' = regime
    BY <2>1, BusSame DEF LineInv, pins
  <2> QED BY <1>1, <1>2, <2>1, <2>2 DEF LineInv
<1>4. CASE Loop
  <2>1. /\ LoopInv' /\ BusInv' /\ pending # <<>> /\ pending' = Tail(pending) /\ mem' \in Memories
        /\ \E s \in Sends(regime', mem', Head(pending)) : replies' = replies \o s
        /\ Head(pending) \in WellFormed
    BY <1>4, BoardServes DEF LineInv, BusInv, Memories
  <2>2. pc \notin {"prompt", "start", "send", "spin"}
    BY <2>1 DEF LineInv
  <2>3. ASSUME pc = "await"
        PROVE  script # <<>> /\ pending' = <<>> /\ replies' \in Sends(regime', mem', Head(script))
    <3>1. script # <<>> /\ pending = <<Head(script)>> /\ replies = <<>>
      BY <2>1, <2>3 DEF LineInv
    <3>2. Head(pending) = Head(script) /\ Tail(pending) = <<>>
      BY <3>1
    <3>3. PICK s \in Sends(regime', mem', Head(script)) : replies' = replies \o s
      BY <2>1, <3>2
    <3>4. s \in Seq(Nat)
      BY <2>1, <3>2, <3>3, SendsFacts
    <3>5. replies' = s
      BY <3>1, <3>3, <3>4
    <3> QED BY <2>1, <3>1, <3>2, <3>3, <3>5
  <2>4. Head(script)' = Head(script)
    BY <1>1
  <2> QED BY <1>1, <1>2, <2>1, <2>2, <2>3, <2>4 DEF LineInv
<1> QED BY <1>3, <1>4 DEF Board

\* A request is written to a line that is clean.
LEMMA LineSend ==
  ASSUME LineInv, Send
  PROVE  LineInv'
<1> DEFINE r == Head(script)
<1>1. /\ pc = "send" /\ script # <<>> /\ pending = <<>> /\ replies = <<>> /\ script \in Seq(Fitting)
      /\ LoopInv
  BY DEF Send, LineInv
<1>2. stream = <<>> /\ i = nbytes
  BY <1>1, BoardIdle
<1>3. r \in Fitting
  BY <1>1
<1>4. /\ pc' = "await" /\ stream' = stream \o Encode(r) /\ pending' = Append(pending, r)
      /\ UNCHANGED <<mem, replies, recvbuf, nbytes, i, pins, command, script>>
  BY DEF Send
<1> HIDE DEF r
<1>5. r \in WellFormed /\ Size(r) <= PacketSize
  BY <1>3 DEF Fitting
<1>6. Encode(r) \in Seq(Nat) /\ Len(Encode(r)) = Size(r) /\ Size(r) \in Nat \ {0}
  BY <1>5, EncodeFacts
<1>7. stream' = Encode(r) /\ pending' = <<r>>
  BY <1>1, <1>2, <1>4, <1>6
<1>8. <<r>> \in Seq(WellFormed) /\ <<r>> # <<>> /\ Head(<<r>>) = r /\ Tail(<<r>>) = <<>>
  BY <1>5
<1>9. Bytes(<<r>>) = Encode(r)
  <2>1. Bytes(<<r>>) = Encode(r) \o Bytes(<<>>)
    BY <1>8, BytesFacts
  <2>2. Bytes(<<>>) = <<>>
    <3>1. <<>> \in Seq(WellFormed)
      OBVIOUS
    <3> QED BY <3>1, BytesFacts
  <2>3. Encode(r) \o <<>> = Encode(r)
    BY <1>6
  <2> QED BY <2>1, <2>2, <2>3
<1>10. Bytes(pending)' = Encode(r)
  <2>1. Bytes(pending)' = Bytes(<<r>>)
    BY <1>7 DEF Bytes
  <2> QED BY <1>9, <2>1
<1>11. Encode(r) # <<>>
  BY <1>6
<1>12. LoopInv'
  BY <1>1, <1>2, <1>4, <1>5, <1>6, <1>7, <1>8, <1>10, <1>11 DEF LoopInv
<1>13. FitsPacket(command)' /\ Head(script)' = r
  BY <1>4 DEF LineInv, FitsPacket, r
<1>14. BusInv'
  BY <1>4, BusSame DEF LineInv
<1> QED BY <1>1, <1>4, <1>7, <1>12, <1>13, <1>14 DEF LineInv

\* The answer is all there is on the line.
LEMMA AnswerIsWhole ==
  ASSUME LineInv, pc = "await", Len(replies) >= Expected(Head(script))
  PROVE  /\ pending = <<>> /\ replies \in Sends(regime, mem, Head(script)) /\ Head(script) \in WellFormed
         /\ SubSeq(replies, 1, Expected(Head(script))) = replies
         /\ SubSeq(replies, Expected(Head(script)) + 1, Len(replies)) = <<>>
<1> DEFINE r == Head(script)
           n == Expected(r)
<1>1. r \in WellFormed
  <2>1. r \in Fitting
    BY DEF LineInv
  <2> QED BY <2>1 DEF Fitting
<1>2. mem \in Memories
  BY DEF LineInv, BusInv
<1>3. n \in Nat \ {0}
  <2>1. Sends(regime, mem, r) # {}
    <3>1. CASE ~Batch(r.cmd) /\ Subcommand(r.cmd) = SUBCMD_GET
      BY <3>1 DEF Sends
    <3>2. CASE ~(~Batch(r.cmd) /\ Subcommand(r.cmd) = SUBCMD_GET)
      <4>1. Sends(regime, mem, r) = Reply(regime, mem, r)
        BY <3>2 DEF Sends
      <4>2. CASE r.cmd \notin {CMD_VERSION, CMD_MEM_RD, CMD_MEM_RDN}
        BY <3>2, <4>1, <4>2 DEF Reply
      <4>3. CASE r.cmd = CMD_VERSION
        BY <4>1, <4>3, Codes DEF Reply, WithAddress
      <4>6. r.cmd \in WithAddress => r.addr \in CellAddresses
        BY <1>1 DEF WellFormed
      <4>4. CASE r.cmd = CMD_MEM_RD
        <5>1. Found(regime, mem, r.addr, 1) # {}
          BY <1>2, <4>4, <4>6, FoundFacts DEF WithAddress
        <5>2. Reply(regime, mem, r) = {Encode(r) \o found : found \in Found(regime, mem, r.addr, 1)}
          BY <4>4, Codes DEF Reply, WithAddress
        <5> QED BY <4>1, <5>1, <5>2
      <4>5. CASE r.cmd = CMD_MEM_RDN
        <5>1. r.n \in Nat
          BY <1>1, <4>5, EncodeFacts
        <5>2. Found(regime, mem, r.addr, r.n) # {}
          BY <1>2, <4>5, <4>6, <5>1, FoundFacts DEF WithAddress
        <5>3. Reply(regime, mem, r) = {Encode(r) \o found : found \in Found(regime, mem, r.addr, r.n)}
          BY <4>5, Codes DEF Reply, WithAddress
        <5> QED BY <4>1, <5>2, <5>3
      <4> QED BY <4>2, <4>3, <4>4, <4>5
    <3> QED BY <3>1, <3>2
  <2>2. PICK s : s \in Sends(regime, mem, r)
    BY <2>1
  <2> QED BY <1>1, <1>2, <2>2, SendsFacts
<1> HIDE DEF n
<1>4. pending = <<>> /\ replies \in Sends(regime, mem, r)
  <2>1. replies # <<>>
    BY <1>3 DEF n
  <2> QED BY <2>1 DEF LineInv
<1>5. replies \in Seq(Nat) /\ Len(replies) = n
  BY <1>1, <1>2, <1>4, SendsFacts DEF n
<1>6. SubSeq(replies, 1, n) = replies
  BY <1>5, SubSeqFull
<1>7. SubSeq(replies, n + 1, Len(replies)) = <<>>
  BY <1>3, <1>5
<1> QED BY <1>1, <1>4, <1>6, <1>7 DEF n

\* It is taken from the line.
LEMMA LineReceives ==
  ASSUME LineInv, Receives
  PROVE  LineInv'
<1>1. /\ pc = "await" /\ Len(replies) >= Expected(Head(script)) /\ script \in Seq(Fitting) /\ script # <<>>
  BY DEF Receives, LineInv
<1>2. pending = <<>> /\ SubSeq(replies, Expected(Head(script)) + 1, Len(replies)) = <<>>
  BY <1>1, AnswerIsWhole
<1>3. /\ replies' = SubSeq(replies, Expected(Head(script)) + 1, Len(replies))
      /\ script' = Tail(script) /\ pc' \in {"crash", "send", "quit"}
      /\ UNCHANGED <<mem, pending, stream, recvbuf, nbytes, i, pins, command>>
  BY DEF Receives, After
<1>4. Received(i, nbytes - i)' = Received(i, nbytes - i) /\ Bytes(pending)' = Bytes(pending)
  BY <1>3 DEF Received, Bytes
<1>5. LoopInv'
  BY <1>3, <1>4 DEF LineInv, LoopInv
<1>6. script' \in Seq(Fitting)
  BY <1>1, <1>3
<1>7. FitsPacket(command)'
  BY <1>3 DEF LineInv, FitsPacket
<1>8. pending' = <<>> /\ replies' = <<>>
  BY <1>2, <1>3
<1>9. BusInv'
  BY <1>3, BusSame DEF LineInv
<1> QED BY <1>3, <1>5, <1>6, <1>7, <1>8, <1>9 DEF LineInv

\* Pulling the plug empties it.
LEMMA LineUnplug ==
  ASSUME LineInv, Unplug
  PROVE  LineInv'
<1>1. /\ replies' = <<>> /\ pending' = <<>> /\ stream' = <<>>
      /\ recvbuf' = [k \in DOMAIN recvbuf |-> 0] /\ nbytes' = 0 /\ i' = 0
      /\ output' = Lines /\ high' = Controls /\ regime' = "free"
      /\ UNCHANGED <<mem, command>>
  BY DEF Unplug
<1>2. PacketSize \in Nat
  BY LoopAssumption
<1>3. Received(i, nbytes - i)' = <<>>
  BY <1>1 DEF Received
<1>4. <<>> \in Seq(WellFormed) /\ <<>> \in Seq(Nat) /\ Len(<<>>) = 0
  OBVIOUS
<1>5. Bytes(pending)' = <<>>
  <2>1. Bytes(pending)' = Bytes(<<>>)
    BY <1>1 DEF Bytes
  <2> QED BY <1>4, <2>1, BytesFacts
<1>6. recvbuf' \in [0 .. BufferSize - 1 -> Nat]
  BY <1>1 DEF LineInv, LoopInv
<1>7. LoopInv'
  BY <1>1, <1>2, <1>3, <1>4, <1>5, <1>6 DEF LoopInv
<1>8. script' \in Seq(Fitting) /\ pc' # "await"
  <2>1. script \in Seq(Fitting)
    BY DEF LineInv
  <2>2. CASE pc = "await"
    <3>1. script # <<>>
      BY <2>2 DEF LineInv
    <3>2. \/ script' = Tail(script) /\ pc' \in {"crash", "send", "quit"}
          \/ script' = script /\ pc' = "spin"
      BY <2>2 DEF Unplug, After
    <3> QED BY <2>1, <3>1, <3>2
  <2>3. CASE pc # "await"
    BY <2>1, <2>3 DEF Unplug
  <2> QED BY <2>2, <2>3
<1>9. FitsPacket(command)'
  BY <1>1 DEF LineInv, FitsPacket
<1>10. BusInv'
  <2>1. mem' \in Memories
    BY <1>1 DEF LineInv, BusInv
  <2>2. Strobes \subseteq high' /\ BUS_RESET \in output' /\ regime' # "taken" /\ regime' \in Regimes
    BY <1>1, LineNumbers DEF Regimes
  <2>3. Strobes' = Strobes /\ Memories' = Memories
    BY DEF Strobes, Memories
  <2> QED BY <2>1, <2>2, <2>3 DEF BusInv
<1> QED BY <1>1, <1>7, <1>8, <1>9, <1>10 DEF LineInv

\* A line begins when it is entered.
LEMMA LineEnter ==
  ASSUME Inputs \subseteq CommandLines, \A c \in Inputs : FitsPacket(c), LineInv, Enter
  PROVE  LineInv'
<1>1. /\ pc = "prompt" /\ pc' = "start" /\ script' = <<>> /\ command' \in Inputs /\ UNCHANGED board
  BY DEF Enter
<1>2. LoopInv' /\ BusInv' /\ UNCHANGED <<mem, pending, replies>>
  BY <1>1, BoardSame DEF LineInv
<1>3. command' \in CommandLines /\ FitsPacket(command')
  BY <1>1
<1>4. FitsPacket(command)'
  BY <1>3 DEF FitsPacket
<1>5. script' \in Seq(Fitting)
  BY <1>1
<1> QED BY <1>1, <1>2, <1>3, <1>4, <1>5 DEF LineInv

\* A command begins and ends on a clean line.
LEMMA LineClient ==
  ASSUME Sizes, LineInv, Client
  PROVE  LineInv'
<1>1. script \in Seq(Fitting)
  BY DEF LineInv
<1>2. CASE NoRequest \/ Refuse \/ OpenFails \/ NotAcquired \/ BadArgument
  <2>1. /\ UNCHANGED board /\ command' = command /\ script' = script /\ pc = "start"
        /\ pc' \in {"quit", "prompt", "crash"}
    BY <1>2 DEF NoRequest, Refuse, OpenFails, NotAcquired, BadArgument, Dispatch, Back
  <2> QED BY <1>1, <2>1, LineStays
<1>3. CASE Begin
  <2>1. /\ UNCHANGED board /\ command' = command /\ script' = Script /\ pc = "start" /\ pc' = "send"
        /\ Talks /\ ~Refused /\ ~Unreadable
    BY <1>3 DEF Begin, Dispatch
  <2>2. Script \in Seq(Fitting)
    BY <2>1, ScriptFits DEF LineInv
  <2> QED BY <2>1, <2>2, LineStays
<1>4. CASE Send
  BY <1>4, LineSend
<1>5. CASE SendFails
  <2>1. /\ UNCHANGED board /\ command' = command /\ script' = Tail(script) /\ pc = "send"
        /\ pc' \in {"quit", "send", "crash"} /\ script # <<>>
    BY <1>5 DEF SendFails, After
  <2>2. script' \in Seq(Fitting)
    BY <1>1, <2>1
  <2> QED BY <2>1, <2>2, LineStays
<1>6. CASE Receives
  BY <1>6, LineReceives
<1>7. CASE Finish
  <2>1. /\ UNCHANGED board /\ command' = command /\ script' = script /\ pc = "send"
        /\ pc' \in {"quit", "prompt"}
    BY <1>7 DEF Finish, Back
  <2> QED BY <1>1, <2>1, LineStays
<1> QED BY <1>2, <1>3, <1>4, <1>5, <1>6, <1>7 DEF Client

\* What happens besides does not touch it.
LEMMA LineUntouched ==
  ASSUME LineInv, UNCHANGED <<board, command, script>>,
         pc' = pc \/ pc' = "quit"
  PROVE  LineInv'
<1>1. LoopInv' /\ BusInv' /\ UNCHANGED <<mem, pending, replies, regime>>
  BY BoardSame DEF LineInv
<1>2. FitsPacket(command)'
  BY DEF LineInv, FitsPacket
<1>3. Head(script)' = Head(script)
  OBVIOUS
<1>4. CASE pc' = "quit"
  BY <1>1, <1>2, <1>4 DEF LineInv
<1>5. CASE pc' = pc
  BY <1>1, <1>2, <1>3, <1>5 DEF LineInv
<1> QED BY <1>4, <1>5

\* LineInv holds at first.
LEMMA LineInit == Init0 => LineInv
<1> SUFFICES ASSUME Init0 PROVE LineInv
  OBVIOUS
<1>1. /\ Init /\ pc = "start" /\ command = [name |-> "check"] /\ script = <<>>
  BY DEF Init0
<1>2. LoopInv
  BY <1>1, LoopInvInit
<1>3. BusInv /\ pending = <<>> /\ replies = <<>>
  BY <1>1, BusInit DEF Init
<1>4. FitsPacket(command)
  BY <1>1 DEF FitsPacket
<1> QED BY <1>1, <1>2, <1>3, <1>4 DEF LineInv

\* Every step keeps it.
LEMMA LineNext ==
  ASSUME Sizes, Inputs \subseteq CommandLines, \A c \in Inputs : FitsPacket(c),
         LineInv, [ClientNext]_allvars
  PROVE  LineInv'
<1>1. CASE Enter
  BY <1>1, LineEnter
<1>2. CASE Client
  BY <1>2, LineClient
<1>3. CASE Timeout
  <2>1. UNCHANGED <<board, command, script>> /\ pc' = "quit"
    BY <1>3 DEF Timeout
  <2> QED BY <2>1, LineUntouched
<1>4. CASE Interrupt \/ Plug \/ UNCHANGED allvars
  <2>1. UNCHANGED <<board, command, script>> /\ pc' = pc
    BY <1>4 DEF Interrupt, Plug, allvars, client
  <2> QED BY <2>1, LineUntouched
<1>5. CASE Board
  BY <1>5, LineBoard
<1>6. CASE Unplug
  BY <1>6, LineUnplug
<1> QED BY <1>1, <1>2, <1>3, <1>4, <1>5, <1>6 DEF ClientNext

\* Undisturbed: whatever is entered, however often the plug is pulled and
\* Ctrl-C pressed, the board keeps its place among the requests, and at the
\* prompt nothing of a request or a reply is left that the next command of
\* commands.c could take for its own.  Assumed: blocks to write fit in a packet.
THEOREM LeavesLineClean ==
  ASSUME Sizes, Inputs \subseteq CommandLines, \A c \in Inputs : FitsPacket(c)
  PROVE  ClientSpec => []Undisturbed
<1>1. LineInv /\ [ClientNext]_allvars => LineInv'
  BY LineNext
<1>2. LineInv => Undisturbed
  BY LoopInvInSync DEF LineInv, Undisturbed
<1> QED BY <1>1, <1>2, LineInit, PTL DEF ClientSpec

---------------------------------------------------------------------------
(* A command does what it says.                                            *)

\* What a command is to do stays the same while it runs.
LEMMA SameCommand ==
  ASSUME command' = command, before' = before
  PROVE  /\ Script' = Script /\ Intended' = Intended
         /\ \A n : Stored(n)' = Stored(n)
         /\ Runs' = Runs
<1>1. Runs' = Runs
  BY DEF Runs, Talks, Refused, Unreadable, AsSaid
<1>2. Script' = Script
  BY DEF Script, cmd_wr, cmd_rd, cmd_detach, cmd_load, cmd_memtest, Divides
<1>3. Intended' = Intended
  BY DEF Intended
<1>4. Base' = Base /\ Lead' = Lead
  BY DEF Base, Lead
<1>5. Data' = Data
  BY DEF Data
<1>6. ASSUME NEW n PROVE Stored(n)' = Stored(n)
  <2>1. Written(n)' = Written(n)
    BY <1>4, <1>5 DEF Written
  <2> QED BY <1>4, <1>5, <2>1 DEF Stored
<1> QED BY <1>1, <1>2, <1>3, <1>6

\* Part of the script is over.
LEMMA RestFacts ==
  ASSUME Sizes, command \in CommandLines \cup {[name |-> "check"]}, FitsPacket(command),
         Runs, NEW n \in 0 .. Len(Script), Rest(n)
  PROVE  /\ script = <<>> => n = Len(Script)
         /\ script # <<>> => /\ n < Len(Script) /\ Head(script) = Script[n + 1]
                             /\ Tail(script) = SubSeq(Script, n + 1 + 1, Len(Script))
<1> DEFINE S == Script
           N == Len(S)
<1>1. S \in Seq(Fitting)
  BY ScriptFits DEF Runs
<1>2. script = SubSeq(S, n + 1, N) /\ n \in 0 .. N
  BY DEF Rest
<1> HIDE DEF S
<1>3. N \in Nat /\ n \in Nat
  BY <1>1, <1>2
<1>4. CASE n = N
  <2>1. n + 1 > N
    BY <1>3, <1>4
  <2>2. SubSeq(S, n + 1, N) = <<>>
    BY <1>1, <1>3, <2>1, SubSeqEmpty
  <2> QED BY <1>2, <1>4, <2>2 DEF S
<1>5. CASE n < N
  <2>1. n + 1 \in 1 .. N /\ N \in n + 1 .. N /\ n + 1 <= N
    BY <1>3, <1>5
  <2>3. SubSeq(S, n + 1, N) # <<>>
    <3>1. ASSUME NEW m \in Nat \ {0}, m = n + 1 PROVE SubSeq(S, m, N) # <<>>
      <4>1. N <= Len(S) /\ m <= N + 1 /\ N - m + 1 # 0
        BY <1>3, <1>5, <3>1
      <4>2. Len(SubSeq(S, m, N)) = N - m + 1
        BY <1>1, <1>3, <4>1, CutFacts
      <4> QED BY <4>1, <4>2
    <3>2. n + 1 \in Nat \ {0}
      BY <1>3
    <3> QED BY <3>1, <3>2
  <2>2. /\ Head(SubSeq(S, n + 1, N)) = S[n + 1]
        /\ Tail(SubSeq(S, n + 1, N)) = SubSeq(S, n + 1 + 1, N)
    BY <1>1, <1>3, <2>1, HeadTailOfSubSeq
  <2> QED BY <1>2, <1>5, <2>2, <2>3 DEF S
<1> QED BY <1>2, <1>3, <1>4, <1>5

\* A command is as far as it was while its part of the world stays as it is.
LEMMA AtStays ==
  ASSUME UNCHANGED <<pc, command, script, report, mem, before, high, regime, fdalive>>,
         pending' = pending \/ pc # "await", NEW n, At(n)
  PROVE  At(n)'
<1>1. Script' = Script /\ \A k : Stored(k)' = Stored(k)
  BY SameCommand
<1>2. Rest(n)' = Rest(n) /\ ReadsBack' = ReadsBack /\ Trusted' = Trusted
  BY <1>1 DEF Rest, ReadsBack, Trusted
<1>3. Served(n)' = Served(n)
  BY DEF Served
<1>4. BusFor(Served(n))'
  BY <1>1, <1>3 DEF At, BusFor
<1>5. Trusted' => mem' = Stored(Served(n))'
  BY <1>1, <1>2, <1>3 DEF At, Stored
<1> QED BY <1>1, <1>2, <1>4, <1>5 DEF At

\* So it is with what happens besides.
LEMMA ProgressStays ==
  ASSUME ProgressInv,
         UNCHANGED <<pc, command, script, report, failed, mem, before, high, regime, fdalive, plain>>,
         pending' = pending \/ pc # "await"
  PROVE  ProgressInv'
<1>1. Runs' = Runs
  BY SameCommand
<1>2. CASE pc \in {"send", "await"} /\ ~failed /\ command \notin Known /\ plain
  <2>1. Runs /\ \E n \in Nat : At(n)
    BY <1>2 DEF ProgressInv
  <2>2. PICK n \in Nat : At(n)
    BY <2>1
  <2>3. At(n)'
    BY <2>2, AtStays
  <2>4. \E k \in Nat : At(k)'
    BY <2>3
  <2> QED BY <1>1, <1>2, <2>1, <2>4 DEF ProgressInv
<1>3. CASE ~(pc \in {"send", "await"} /\ ~failed /\ command \notin Known /\ plain)
  BY <1>1, <1>3 DEF ProgressInv
<1> QED BY <1>2, <1>3

\* A command that is not waited for has nothing to show.
LEMMA ProgressEnds ==
  ASSUME ProgressInv, UNCHANGED <<command, before>>, pc' \in {"prompt", "spin", "quit", "crash"}
  PROVE  ProgressInv'
BY DEF ProgressInv

\* Nor has one that has complained.
LEMMA ProgressFails ==
  ASSUME ProgressInv, UNCHANGED <<command, before>>, pc' \notin {"start", "await"}, failed'
  PROVE  ProgressInv'
BY DEF ProgressInv

\* The board does what the request says.
LEMMA ProgressBoard ==
  ASSUME Sizes, LineInv, ProgressInv, Board
  PROVE  ProgressInv'
<1>1. UNCHANGED <<pc, command, script, report, failed, fdalive, before, plain>>
  BY DEF Board, client, entered
<1>2. CASE Receive
  <2>1. UNCHANGED <<mem, pending, high, regime>>
    BY <1>2 DEF Receive, pins
  <2> QED BY <1>1, <2>1, ProgressStays
<1>3. CASE Loop
  <2> DEFINE r == Head(script)
  <2>1. LoopInv /\ BusInv
    BY DEF LineInv
  <2>2. pending # <<>> /\ pending' = Tail(pending) /\ cmd = Head(pending).cmd
    BY <1>3, <2>1, LoopServes
  <2>3. pc \notin {"prompt", "start", "send", "spin"}
    BY <2>2 DEF LineInv
  <2>4. CASE ~(pc = "await" /\ ~failed /\ command \notin Known /\ plain)
    BY <1>1, <2>3, <2>4 DEF ProgressInv
  <2>5. CASE pc = "await" /\ ~failed /\ command \notin Known /\ plain
    <3>1. script # <<>> /\ pending = <<r>>
      BY <2>2, <2>5 DEF LineInv
    <3>2. Head(pending) = r /\ pending' = <<>> /\ cmd = r.cmd
      BY <2>2, <3>1
    <3>3. Runs /\ before \in Memories /\ (fdalive \/ OpensItself(r)) /\ \E n \in Nat : At(n)
      BY <2>5 DEF ProgressInv
    <3>4. PICK n \in Nat : At(n)
      BY <3>3
    <3>5. Served(n) = n
      BY <2>2 DEF Served
    <3>6. n \in 0 .. Len(Script) /\ Rest(n) /\ BusFor(n) /\ (Trusted => mem = Stored(n))
      BY <3>4, <3>5 DEF At
    <3>7. n < Len(Script) /\ r = Script[n + 1]
      BY <3>1, <3>3, <3>6, RestFacts DEF LineInv
    <3>8. Len(Script) \in Nat
      BY <3>3, StoredFacts DEF Runs, LineInv
    <3>9. /\ r.cmd # CMD_MEM_WRN
          /\ Stored(n + 1) = IF r.cmd = CMD_MEM_WR THEN Write(Stored(n), r.addr, r.data) ELSE Stored(n)
      BY <3>3, <3>7, StoredFacts DEF Runs, LineInv
    <3>10. /\ UsesPin(r.cmd) => command.name \in {"pin", "detach"}
           /\ SetsLow(r.cmd) => Len(Script) = 1
           /\ UsesMemory(r.cmd) => /\ command.name \in {"wr", "rd", "load", "memtest"}
                                   /\ ~OpensItself(r)
           /\ command.name \in {"wr", "rd"} => UsesMemory(r.cmd)
           /\ command.name \in {"load", "memtest"} =>
                /\ n = 0 => r.cmd = CMD_ACQUIRE
                /\ 1 <= n /\ n + 1 < Len(Script) => UsesMemory(r.cmd)
                /\ UsesMemory(r.cmd) => 1 <= n
      <4>1. CMD_ACQUIRE \notin {CMD_MEM_WR, CMD_MEM_RD, CMD_MEM_WRN, CMD_MEM_RDN}
        BY DEF CMD_ACQUIRE, CMD_MEM_WR, CMD_MEM_RD, CMD_MEM_WRN, CMD_MEM_RDN
      <4>2. n = 0 \/ 1 <= n
        BY <3>6
      <4> QED BY <3>3, <3>7, <4>1, <4>2, ScriptKinds DEF Runs, LineInv, UsesMemory
    <3>11. /\ regime' = Use(regime, r.cmd) /\ regime \in Regimes
           /\ Storing \subseteq high /\ ~SetsLow(r.cmd) => Storing \subseteq high'
           /\ Storing \subseteq high /\ ~UsesMemory(r.cmd) => mem' = mem
      BY <1>3, <2>1, <3>2, BusStep DEF BusInv
    <3>12. mem' \in Effect(regime, mem, r)
      BY <1>3, <2>1, <3>2, <3>9, LoopStep
    <3>13. /\ UsesMemory(r.cmd) => regime' = regime
           /\ r.cmd = CMD_ACQUIRE /\ regime # "raw" => regime' = "taken"
           /\ ~UsesPin(r.cmd) /\ regime # "raw" => regime' # "raw"
      BY <3>11, UseFacts
    <3> HIDE DEF r
    <3>14. Storing \subseteq high
      BY <3>6, <3>7 DEF BusFor
    <3>15. Script' = Script /\ Runs' = Runs /\ \A k : Stored(k)' = Stored(k)
      BY <1>1, SameCommand
    <3>16. Served(n)' = n + 1
      BY <1>1, <2>5, <3>2 DEF Served
    <3>17. BusFor(n + 1)'
      <4>1. n + 1 < Len(Script) => Storing \subseteq high'
        <5>1. ASSUME n + 1 < Len(Script) PROVE ~SetsLow(r.cmd)
          <6> DEFINE l == Len(Script)
          <6>2. n \in Nat /\ l \in Nat /\ n + 1 < l
            BY <3>6, <3>8, <5>1
          <6>3. l # 1
            <7> HIDE DEF l
            <7> QED BY <6>2
          <6>1. Len(Script) # 1
            BY <6>3
          <6> QED BY <3>10, <6>1
        <5> QED BY <3>11, <3>14, <5>1
      <4>2. command.name \notin {"pin", "detach"} => regime' # "raw"
        BY <3>6, <3>10, <3>13 DEF BusFor
      <4>3. ASSUME command.name \in {"load", "memtest"}, fdalive, n + 1 < Len(Script)
            PROVE  regime' = "taken"
        <5>1. CASE n = 0
          <6>1. r.cmd = CMD_ACQUIRE /\ regime # "raw"
            BY <3>6, <3>10, <4>3, <5>1 DEF BusFor
          <6> QED BY <3>13, <6>1
        <5>2. CASE n # 0
          <6>1. 1 <= n
            BY <3>6, <5>2
          <6>2. UsesMemory(r.cmd) /\ regime = "taken"
            BY <3>6, <3>7, <3>10, <4>3, <6>1 DEF BusFor
          <6> QED BY <3>13, <6>2
        <5> QED BY <5>1, <5>2
      <4> QED BY <1>1, <3>15, <4>1, <4>2, <4>3 DEF BusFor
    <3>18. ASSUME Trusted' PROVE mem' = Stored(n + 1)
      <4>1. CASE UsesMemory(r.cmd)
        <5>1. regime = "taken"
          <6>1. CASE command.name \in {"wr", "rd"}
            <7>1. regime' = "taken"
              BY <1>1, <3>18, <6>1 DEF Trusted
            <7> QED BY <3>13, <4>1, <7>1
          <6>2. CASE command.name \in {"load", "memtest"}
            <7>1. fdalive /\ 1 <= n
              BY <3>3, <3>10, <4>1, <6>2 DEF r
            <7> QED BY <3>6, <3>7, <6>2, <7>1 DEF BusFor
          <6> QED BY <3>10, <4>1, <6>1, <6>2
        <5>2. mem = Stored(n)
          BY <3>6, <5>1 DEF Trusted
        <5>3. CASE r.cmd = CMD_MEM_WR
          <6>1. mem' = Write(mem, r.addr, r.data)
            BY <3>12, <5>1, <5>3 DEF Effect
          <6> QED BY <3>9, <5>2, <5>3, <6>1
        <5>4. CASE r.cmd # CMD_MEM_WR
          <6>1. mem' = mem
            BY <3>9, <3>12, <5>1, <5>4 DEF Effect
          <6> QED BY <3>9, <5>2, <5>4, <6>1
        <5> QED BY <5>3, <5>4
      <4>2. CASE ~UsesMemory(r.cmd)
        <5>1. mem' = mem /\ r.cmd # CMD_MEM_WR
          BY <3>11, <3>14, <4>2 DEF UsesMemory
        <5>2. Trusted
          BY <3>10, <4>2 DEF Trusted
        <5> QED BY <3>6, <3>9, <5>1, <5>2
      <4> QED BY <4>1, <4>2
    <3>19. Rest(n)'
      BY <1>1, <3>6, <3>15 DEF Rest
    <3>20. Trusted' => mem' = Stored(Served(n))'
      <4>1. Stored(Served(n))' = Stored(n + 1)
        BY <1>1, <3>15, <3>16, SameCommand DEF Stored, Base, Data, Written, Lead
      <4> QED BY <3>18, <4>1
    <3>21. BusFor(Served(n))'
      BY <3>16, <3>17 DEF BusFor
    <3>22. At(n)'
      BY <1>1, <2>5, <3>6, <3>15, <3>19, <3>20, <3>21 DEF At
    <3>23. Runs' /\ \E k \in Nat : At(k)'
      BY <3>3, <3>15, <3>22
    <3>24. (fdalive \/ OpensItself(Head(script)))'
      BY <1>1, <3>3 DEF r
    <3> QED BY <1>1, <2>5, <3>3, <3>23, <3>24 DEF ProgressInv
  <2> QED BY <2>4, <2>5
<1> QED BY <1>2, <1>3 DEF Board

\* What is in the memory when a command starts.
LEMMA ProgressEnter ==
  ASSUME LineInv, ProgressInv, Enter
  PROVE  ProgressInv'
<1>1. /\ pc' = "start" /\ command' \in Inputs /\ before' = mem /\ plain' = (regime # "raw")
      /\ UNCHANGED <<mem, regime>>
  BY DEF Enter, board, pins
<1>2. mem \in Memories
  BY DEF LineInv, BusInv
<1> QED BY <1>1, <1>2 DEF ProgressInv

\* The first request is the first of the script.
LEMMA ProgressBegin ==
  ASSUME Sizes, \A c \in Inputs \ Known : AsSaid(c), LineInv, ProgressInv, Begin
  PROVE  ProgressInv'
<1>1. /\ pc = "start" /\ pc' = "send" /\ script' = Script
      /\ UNCHANGED <<command, before, plain, mem, high, regime>> /\ Talks /\ ~Refused /\ ~Unreadable
  BY DEF Begin, Dispatch, board, pins, entered
<1>2. /\ before \in Memories /\ mem = before /\ command \in Inputs \cup {[name |-> "check"]}
      /\ plain => regime # "raw"
  BY <1>1 DEF ProgressInv
<1>3. Script' = Script /\ Runs' = Runs /\ \A k : Stored(k)' = Stored(k)
  BY <1>1, SameCommand
<1>4. CASE command \in Known \/ ~plain
  BY <1>1, <1>2, <1>4 DEF ProgressInv
<1>5. CASE command \notin Known /\ plain
  <2>1. AsSaid(command)
    <3>1. CASE command = [name |-> "check"]
      BY <3>1 DEF AsSaid
    <3> QED BY <1>2, <1>5, <3>1
  <2>2. Runs
    BY <1>1, <2>1 DEF Runs
  <2>3. Stored(0) = before /\ Len(Script) \in Nat
    BY <1>1, <1>2, <2>1, StoredFacts DEF LineInv
  <2>4. Script \in Seq(Fitting)
    BY <1>1, ScriptFits DEF LineInv
  <2>5. Rest(0)'
    <3>1. SubSeq(Script, 1, Len(Script)) = Script
      BY <2>4, SubSeqFull
    <3>2. 0 + 1 = 1
      OBVIOUS
    <3> QED BY <1>1, <1>3, <3>1, <3>2 DEF Rest
  <2>6. Served(0)' = 0
    BY <1>1 DEF Served
  <2>7. mem' = Stored(Served(0))'
    <3>1. Stored(Served(0))' = Stored(0)
      BY <1>1, <1>3, <2>6 DEF Stored, Base, Data, Written, Lead
    <3> QED BY <1>1, <1>2, <2>3, <3>1
  <2>8. script' = <<>> => ReadsBack'
    <3>1. CASE command.name = "rd"
      <4>1. Script = <<cmd_rd>>
        BY <3>1 DEF Script
      <4> QED BY <1>1, <4>1
    <3>2. CASE command.name # "rd"
      BY <1>1, <3>2 DEF ReadsBack
    <3> QED BY <3>1, <3>2
  <2>9. BusFor(Served(0))'
    <3>1. regime' # "raw"
      BY <1>1, <1>2, <1>5
    <3>2. Storing \subseteq high'
      BY <1>1, <1>2, <1>5, LineNumbers DEF LineInv, BusInv
    <3>3. ~(1 <= 0)
      OBVIOUS
    <3> QED BY <2>6, <3>1, <3>2, <3>3 DEF BusFor
  <2>10. At(0)'
    BY <1>3, <2>3, <2>5, <2>7, <2>8, <2>9 DEF At
  <2>11. Runs' /\ \E k \in Nat : At(k)'
    BY <1>3, <2>2, <2>10
  <2> QED BY <1>1, <1>2, <2>11 DEF ProgressInv
<1> QED BY <1>4, <1>5

\* Writing a request does nothing yet.
LEMMA ProgressSend ==
  ASSUME LineInv, ProgressInv, Send
  PROVE  ProgressInv'
<1>1. /\ pc = "send" /\ script # <<>> /\ pc' = "await" /\ pending = <<>>
      /\ pending' = Append(pending, Head(script))
      /\ fdalive \/ OpensItself(Head(script))
      /\ UNCHANGED <<command, before, plain, script, mem, failed, report, high, regime, fdalive>>
  BY DEF Send, LineInv, pins, entered
<1>2. pending' # <<>>
  BY <1>1
<1>3. Script' = Script /\ Runs' = Runs /\ \A k : Stored(k)' = Stored(k)
  BY <1>1, SameCommand
<1>6. (fdalive \/ OpensItself(Head(script)))'
  BY <1>1
<1>4. CASE failed \/ command \in Known \/ ~plain
  BY <1>1, <1>4, <1>6 DEF ProgressInv
<1>5. CASE ~failed /\ command \notin Known /\ plain
  <2>1. Runs /\ before \in Memories /\ \E n \in Nat : At(n)
    BY <1>1, <1>5 DEF ProgressInv
  <2>2. PICK n \in Nat : At(n)
    BY <2>1
  <2>3. Served(n) = n /\ Served(n)' = n
    BY <1>1, <1>2 DEF Served
  <2>4. n \in 0 .. Len(Script) /\ Rest(n) /\ BusFor(n) /\ (Trusted => mem = Stored(n))
    BY <2>2, <2>3 DEF At
  <2>5. BusFor(Served(n))'
    BY <1>1, <1>3, <2>3, <2>4 DEF BusFor
  <2>6. Trusted' => mem' = Stored(Served(n))'
    <3>1. Stored(Served(n))' = Stored(n)
      BY <1>1, <1>3, <2>3 DEF Stored, Base, Data, Written, Lead
    <3>2. Trusted' => Trusted
      BY <1>1 DEF Trusted
    <3> QED BY <1>1, <2>4, <3>1, <3>2
  <2>7. Rest(n)'
    BY <1>1, <1>3, <2>4 DEF Rest
  <2>8. At(n)'
    BY <1>1, <1>3, <2>4, <2>5, <2>6, <2>7 DEF At
  <2>9. Runs' /\ \E k \in Nat : At(k)'
    BY <1>3, <2>1, <2>8
  <2> QED BY <1>1, <1>6, <2>1, <2>9 DEF ProgressInv
<1> QED BY <1>4, <1>5

\* What rd prints is what is stored.
LEMMA PrintedIsRead ==
  ASSUME Runs, command \in CommandLines, command.name = "rd", NEW r \in WellFormed, r = cmd_rd,
         mem \in Memories, regime = "taken", NEW s \in Sends(regime, mem, r)
  PROVE  printed(r, s) = Contents(mem, command.addr, IF "n" \in DOMAIN command THEN command.n ELSE 1)
<1>1. command.addr \in CellAddresses
  BY LineFacts
<1>2. CASE "n" \notin DOMAIN command
  <2>1. r.cmd = CMD_MEM_RD /\ r.addr = command.addr
    BY <1>2 DEF cmd_rd, RdOne
  <2>2. printed(r, s) = <<s[4]>> /\ s[4] = mem[command.addr]
    BY <2>1, SendsFacts, Codes DEF printed
  <2> DEFINE c == Contents(mem, command.addr, 1)
             d == <<s[4]>>
  <2>3. c \in Seq(ByteValues) /\ Len(c) = 1 /\ c[1] = mem[Plus(command.addr, 1 - 1)]
    <3>1. 1 \in Nat /\ 1 \in 1 .. 1
      OBVIOUS
    <3> QED BY <1>1, <3>1, ContentsFacts
  <2>4. Plus(command.addr, 1 - 1) = command.addr
    <3>1. 1 - 1 = 0
      OBVIOUS
    <3> QED BY <1>1, <3>1, PlusZero
  <2> HIDE DEF c
  <2>5. c[1] = s[4] /\ c[1] \in ByteValues
    <3>1. c[1] = mem[Plus(command.addr, 1 - 1)]
      BY <2>3
    <3>2. mem[Plus(command.addr, 1 - 1)] = mem[command.addr]
      BY <2>4
    <3>3. c[1] = s[4]
      BY <2>2, <3>1, <3>2
    <3>4. 1 \in 1 .. Len(c)
      BY <2>3
    <3>5. c[1] \in ByteValues
      BY <2>3, <3>4, ElementOfSeq
    <3> QED BY <3>3, <3>5
  <2>6. d \in Seq(ByteValues) /\ Len(d) = 1 /\ d[1] = s[4]
    BY <2>5
  <2> HIDE DEF d
  <2>7. \A k \in 1 .. Len(c) : c[k] = d[k]
    BY <2>3, <2>5, <2>6
  <2>8. c = d
    BY <2>3, <2>6, <2>7, SeqEqual
  <2> QED BY <1>2, <2>2, <2>8 DEF c, d
<1>3. CASE "n" \in DOMAIN command
  <2>1. r.cmd = CMD_MEM_RDN /\ r.addr = command.addr /\ r.n = command.n /\ r.n # 1
    BY <1>3 DEF cmd_rd, Runs, AsSaid
  <2>2. s[4] = r.n /\ SubSeq(s, 5, 4 + r.n) = Contents(mem, r.addr, r.n)
    BY <2>1, SendsFacts
  <2>3. printed(r, s) = SubSeq(s, 5, 4 + s[4])
    BY <2>1, Codes DEF printed
  <2> QED BY <1>3, <2>1, <2>2, <2>3
<1> QED BY <1>2, <1>3

\* An answer that is as it must be ends its request.
LEMMA ProgressReceives ==
  ASSUME Sizes, LineInv, ProgressInv, Receives
  PROVE  ProgressInv'
<1> DEFINE r == Head(script)
           resp == SubSeq(replies, 1, Expected(r))
           good == Answers(r, resp)
<1>1. /\ pc = "await" /\ Len(replies) >= Expected(r) /\ script # <<>>
      /\ UNCHANGED <<command, before, plain, mem, pending, high, regime, fdalive>>
      /\ script' = Tail(script) /\ (~failed' => ~failed /\ good)
      /\ pc' \in {"crash", "quit", "send"}
      /\ report' = IF good /\ command.name = "rd" THEN printed(r, resp) ELSE report
  BY DEF Receives, After, LineInv, pins, entered
<1>2. pending = <<>> /\ resp = replies /\ replies \in Sends(regime, mem, r) /\ r \in WellFormed
  BY <1>1, AnswerIsWhole
<1> HIDE DEF r, resp, good
<1>3. CASE failed' \/ pc' # "send"
  <2>1. CASE failed'
    BY <1>1, <2>1, ProgressFails
  <2>2. CASE pc' # "send"
    BY <1>1, <2>2, ProgressEnds
  <2> QED BY <1>3, <2>1, <2>2
<1>4. CASE command \in Known \/ ~plain
  BY <1>1, <1>4 DEF ProgressInv
<1>5. CASE ~failed' /\ pc' = "send" /\ command \notin Known /\ plain
  <2>1. Runs /\ before \in Memories /\ \E n \in Nat : At(n)
    BY <1>1, <1>5 DEF ProgressInv
  <2>2. PICK n \in Nat : At(n)
    BY <2>1
  <2>15. Served(n) = n + 1 /\ Served(n + 1)' = n + 1
    BY <1>1, <1>2, <1>5 DEF Served
  <2>3. n \in 0 .. Len(Script) /\ Rest(n) /\ BusFor(n + 1) /\ (Trusted => mem = Stored(n + 1))
    BY <2>2, <2>15 DEF At
  <2>4. n < Len(Script) /\ r = Script[n + 1] /\ Tail(script) = SubSeq(Script, n + 1 + 1, Len(Script))
    BY <1>1, <2>1, <2>3, RestFacts DEF LineInv, r
  <2>5. Script' = Script /\ Runs' = Runs /\ \A k : Stored(k)' = Stored(k)
    BY <1>1, SameCommand
  <2>6. Len(Script) \in Nat
    BY <2>1, StoredFacts DEF LineInv, Runs
  <2>7. n + 1 \in 0 .. Len(Script)
    BY <2>3, <2>4, <2>6
  <2>8. Rest(n + 1)'
    BY <1>1, <2>4, <2>5 DEF Rest
  <2>9. BusFor(Served(n + 1))'
    BY <1>1, <2>3, <2>5, <2>15 DEF BusFor
  <2>10. Trusted' => mem' = Stored(Served(n + 1))'
    <3>1. Stored(Served(n + 1))' = Stored(n + 1)
      BY <1>1, <2>5, <2>15 DEF Stored, Base, Data, Written, Lead
    <3>2. Trusted' => Trusted
      BY <1>1 DEF Trusted
    <3> QED BY <1>1, <2>3, <3>1, <3>2
  <2>11. ASSUME Trusted' PROVE ReadsBack'
    <3>1. CASE command.name = "rd"
      <4>1. Script = <<cmd_rd>>
        BY <3>1 DEF Script
      <4>2. n = 0 /\ r = cmd_rd
        <5>1. Len(<<cmd_rd>>) = 1 /\ <<cmd_rd>>[1] = cmd_rd
          OBVIOUS
        <5>2. n = 0
          BY <2>4, <4>1, <5>1
        <5> QED BY <2>4, <4>1, <5>1, <5>2
      <4>3. command \in CommandLines /\ mem \in Memories /\ regime = "taken"
        BY <1>1, <2>11, <3>1 DEF LineInv, BusInv, Trusted
      <4>4. printed(r, replies) = Contents(mem, command.addr, IF "n" \in DOMAIN command THEN command.n ELSE 1)
        BY <1>2, <2>1, <3>1, <4>2, <4>3, PrintedIsRead
      <4>5. report' = printed(r, replies)
        BY <1>1, <1>2, <1>5, <3>1
      <4> QED BY <1>1, <4>4, <4>5 DEF ReadsBack
    <3>2. CASE command.name # "rd"
      BY <1>1, <3>2 DEF ReadsBack
    <3> QED BY <3>1, <3>2
  <2>12. At(n + 1)'
    BY <2>5, <2>7, <2>8, <2>9, <2>10, <2>11 DEF At
  <2>13. n + 1 \in Nat
    OBVIOUS
  <2>14. Runs' /\ \E k \in Nat : At(k)'
    BY <2>1, <2>5, <2>12, <2>13
  <2> QED BY <1>1, <1>5, <2>1, <2>14 DEF ProgressInv
<1> QED BY <1>3, <1>4, <1>5

\* A board that starts again between two requests has lost nothing of what is
\* stored; the line of the command is dead.
LEMMA ProgressUnplug ==
  ASSUME ProgressInv, Unplug, pc # "await"
  PROVE  ProgressInv'
<1>1. /\ UNCHANGED <<pc, script, failed, command, report, mem, before, plain>>
      /\ high' = Controls /\ regime' = "free" /\ fdalive' = FALSE
  BY DEF Unplug, entered
<1>2. Script' = Script /\ Runs' = Runs /\ \A k : Stored(k)' = Stored(k)
  BY <1>1, SameCommand
<1>3. CASE pc = "send" /\ ~failed /\ command \notin Known /\ plain
  <2>1. Runs /\ before \in Memories /\ \E n \in Nat : At(n)
    BY <1>3 DEF ProgressInv
  <2>2. PICK n \in Nat : At(n)
    BY <2>1
  <2>3. Served(n) = n /\ Served(n)' = n
    BY <1>1, <1>3 DEF Served
  <2>4. /\ n \in 0 .. Len(Script) /\ Rest(n) /\ (Trusted => mem = Stored(n))
        /\ script = <<>> /\ Trusted => ReadsBack
    BY <1>3, <2>2, <2>3 DEF At
  <2>5. Trusted' => Trusted
    BY <1>1 DEF Trusted
  <2>6. BusFor(Served(n))'
    <3>1. Storing \subseteq high'
      BY <1>1, LineNumbers
    <3> QED BY <1>1, <3>1 DEF BusFor
  <2>7. Trusted' => mem' = Stored(Served(n))'
    <3>1. Stored(Served(n))' = Stored(n)
      BY <1>1, <1>2, <2>3 DEF Stored, Base, Data, Written, Lead
    <3> QED BY <1>1, <2>4, <2>5, <3>1
  <2>8. Rest(n)' /\ ReadsBack' = ReadsBack
    BY <1>1, <1>2, <2>4 DEF Rest, ReadsBack
  <2>9. At(n)'
    BY <1>1, <1>2, <2>4, <2>5, <2>6, <2>7, <2>8 DEF At
  <2>10. Runs' /\ \E k \in Nat : At(k)'
    BY <1>2, <2>1, <2>9
  <2> QED BY <1>1, <1>3, <2>1, <2>10 DEF ProgressInv
<1>4. CASE ~(pc = "send" /\ ~failed /\ command \notin Known /\ plain)
  BY <1>1, <1>4 DEF ProgressInv
<1> QED BY <1>3, <1>4

\* Every step of the client moves the command on.
LEMMA ProgressNext ==
  ASSUME Sizes, \A c \in Inputs \ Known : AsSaid(c), LineInv, ProgressInv, [ClientNext]_allvars
  PROVE  ProgressInv'
<1>1. CASE Enter
  BY <1>1, ProgressEnter
<1>2. CASE NoRequest \/ Refuse \/ OpenFails \/ NotAcquired \/ BadArgument
  <2>1. UNCHANGED <<command, before>> /\ pc' \in {"quit", "prompt", "crash"}
    BY <1>2 DEF NoRequest, Refuse, OpenFails, NotAcquired, BadArgument, Dispatch, Back, entered
  <2> QED BY <2>1, ProgressEnds
<1>3. CASE Begin
  BY <1>3, ProgressBegin
<1>4. CASE Send
  BY <1>4, ProgressSend
<1>5. CASE SendFails
  <2>1. UNCHANGED <<command, before>> /\ pc' \notin {"start", "await"} /\ failed'
    BY <1>5 DEF SendFails, After, entered
  <2> QED BY <2>1, ProgressFails
<1>6. CASE Receives
  BY <1>6, ProgressReceives
<1>7. CASE Finish \/ Timeout
  <2>1. UNCHANGED <<command, before>> /\ pc' \in {"quit", "prompt"}
    BY <1>7 DEF Finish, Timeout, Back, entered
  <2> QED BY <2>1, ProgressEnds
<1>8. CASE Interrupt \/ Plug \/ UNCHANGED allvars
  <2>1. UNCHANGED <<pc, command, script, report, failed, mem, before, pending, high, regime,
                    fdalive, plain>>
    BY <1>8 DEF Interrupt, Plug, allvars, client, board, pins, entered
  <2> QED BY <2>1, ProgressStays
<1>9. CASE Board
  BY <1>9, ProgressBoard
<1>10. CASE Unplug
  <2>1. UNCHANGED <<command, before>>
    BY <1>10 DEF Unplug, entered
  <2>2. CASE pc = "await"
    <3>1. CASE After(Head(script), FALSE)
      <4>1. pc' \notin {"start", "await"} /\ failed'
        BY <3>1 DEF After
      <4> QED BY <2>1, <4>1, ProgressFails
    <3>2. CASE pc' = "spin"
      BY <2>1, <3>2, ProgressEnds
    <3> QED BY <1>10, <2>2, <3>1, <3>2 DEF Unplug
  <2>3. CASE pc # "await"
    BY <1>10, <2>3, ProgressUnplug
  <2> QED BY <2>2, <2>3
<1> QED BY <1>1, <1>2, <1>3, <1>4, <1>5, <1>6, <1>7, <1>8, <1>9, <1>10 DEF ClientNext, Client

\* A command that is over has done what it says.
LEMMA TruthfulFinish ==
  ASSUME Sizes, LineInv, ProgressInv, Finish
  PROVE  Truthful'
<1>1. /\ pc = "send" /\ script = <<>>
      /\ UNCHANGED <<command, before, plain, regime, mem, failed, report>>
  BY DEF Finish, board, pins, entered
<1>2. Intended' = Intended
  BY <1>1, SameCommand
<1>3. CASE failed \/ command \in Known \/ ~plain \/ ~Trusted
  BY <1>1, <1>3 DEF Truthful, Done, Trusted
<1>4. CASE ~failed /\ command \notin Known /\ plain /\ Trusted
  <2>1. Runs /\ before \in Memories /\ \E n \in Nat : At(n)
    BY <1>1, <1>4 DEF ProgressInv
  <2>2. PICK n \in Nat : At(n)
    BY <2>1
  <2>3. Served(n) = n
    BY <1>1 DEF Served
  <2>4. n \in 0 .. Len(Script) /\ Rest(n) /\ mem = Stored(n) /\ ReadsBack
    BY <1>1, <1>4, <2>2, <2>3 DEF At
  <2>5. n = Len(Script)
    BY <1>1, <2>1, <2>4, RestFacts DEF LineInv
  <2>6. mem = Intended
    BY <2>1, <2>4, <2>5, StoredFacts DEF LineInv, Runs
  <2> QED BY <1>1, <1>2, <2>4, <2>6 DEF Truthful, Done, ReadsBack
<1> QED BY <1>3, <1>4

\* So has every command, when the next is asked for.
LEMMA TruthfulNext ==
  ASSUME Sizes, LineInv, ProgressInv, Truthful, [ClientNext]_allvars
  PROVE  Truthful'
<1>1. ASSUME UNCHANGED <<pc, failed, command, mem, before, plain, report>>, Trusted' => Trusted
      PROVE  Truthful'
  <2>1. Intended' = Intended
    BY <1>1, SameCommand
  <2>2. CASE Trusted'
    BY <1>1, <2>1, <2>2 DEF Truthful, Done, Trusted
  <2>3. CASE ~Trusted'
    BY <2>3 DEF Truthful, Trusted
  <2> QED BY <2>2, <2>3
<1>2. ASSUME pc' # "prompt" \/ failed' PROVE Truthful'
  BY <1>2 DEF Truthful, Done
<1>3. CASE Enter \/ Begin \/ Send \/ SendFails \/ Receives \/ Timeout
  <2>1. pc' # "prompt"
    BY <1>3 DEF Enter, Begin, Dispatch, Send, SendFails, Receives, After, Timeout
  <2> QED BY <1>2, <2>1
<1>4. CASE Refuse \/ OpenFails \/ NotAcquired \/ BadArgument
  <2>1. failed'
    BY <1>4 DEF Refuse, OpenFails, NotAcquired, BadArgument, Dispatch
  <2> QED BY <1>2, <2>1
<1>5. CASE NoRequest
  <2>1. CASE command.name = "help"
    <3>1. pc = "start" /\ UNCHANGED <<command, mem, before>>
      BY <1>5 DEF NoRequest, Dispatch, board, entered
    <3>2. mem = before
      BY <3>1 DEF ProgressInv
    <3>3. Intended = before /\ Intended' = Intended
      BY <2>1, <3>1, SameCommand DEF Intended
    <3> QED BY <2>1, <3>1, <3>2, <3>3 DEF Truthful, Done
  <2>2. CASE command.name # "help"
    <3>1. pc' # "prompt"
      BY <1>5, <2>2 DEF NoRequest, Dispatch
    <3> QED BY <1>2, <3>1
  <2> QED BY <2>1, <2>2
<1>6. CASE Finish
  BY <1>6, TruthfulFinish
<1>7. CASE Interrupt \/ Plug \/ UNCHANGED allvars
  <2>1. UNCHANGED <<pc, failed, command, mem, before, plain, report, regime>>
    BY <1>7 DEF Interrupt, Plug, allvars, client, board, pins, entered
  <2>2. Trusted' => Trusted
    BY <2>1 DEF Trusted
  <2> QED BY <1>1, <2>1, <2>2
<1>8. CASE Board
  <2>1. UNCHANGED <<pc, failed, command, before, plain, report>>
    BY <1>8 DEF Board, client, entered
  <2>2. CASE Receive
    <3>1. UNCHANGED <<mem, regime>>
      BY <2>2 DEF Receive, pins
    <3>2. Trusted' => Trusted
      BY <2>1, <3>1 DEF Trusted
    <3> QED BY <1>1, <2>1, <3>1, <3>2
  <2>3. CASE Loop
    <3>1. pending # <<>>
      BY <2>3, LoopServes DEF LineInv
    <3>2. pc' # "prompt"
      BY <2>1, <3>1 DEF LineInv
    <3> QED BY <1>2, <3>2
  <2> QED BY <1>8, <2>2, <2>3 DEF Board
<1>9. CASE Unplug
  <2>1. UNCHANGED <<command, mem, before, plain, report>> /\ regime' = "free"
    BY <1>9 DEF Unplug, entered
  <2>2. CASE pc = "await"
    <3>1. pc' # "prompt"
      BY <1>9, <2>2 DEF Unplug, After
    <3> QED BY <1>2, <3>1
  <2>3. CASE pc # "await"
    <3>1. UNCHANGED <<pc, failed>>
      BY <1>9, <2>3 DEF Unplug
    <3>2. Trusted' => Trusted
      BY <2>1 DEF Trusted
    <3> QED BY <1>1, <2>1, <3>1, <3>2
  <2> QED BY <2>2, <2>3
<1> QED BY <1>3, <1>4, <1>5, <1>6, <1>7, <1>8, <1>9 DEF ClientNext, Client

\* Truthful: a command that has come back to the prompt without a complaint
\* has made of the memory what it says, byte by byte, and rd has printed what
\* is stored, for every memory and every command, with the plug pulled and
\* Ctrl-C pressed at any moment.  It is so as long as no pin has been used by
\* itself since the board started, and of wr and rd as long as the board that
\* was acquired has not started again.  Assumed of commands.c: lines not in
\* Known write no block and read none of a single byte, and blocks fit in a
\* packet.
THEOREM CommandsTruthful ==
  ASSUME Sizes, Inputs \subseteq CommandLines, \A c \in Inputs : FitsPacket(c),
         \A c \in Inputs \ Known : AsSaid(c)
  PROVE  ClientSpec => []Truthful
<1> DEFINE Inv == ClientInv
<1>1. Init0 => Inv
  <2> SUFFICES ASSUME Init0 PROVE ClientInv
    OBVIOUS
  <2>1. pc = "start" /\ before = mem /\ command = [name |-> "check"] /\ regime = "free"
    BY DEF Init0, Init, Started
  <2>2. LineInv
    BY LineInit
  <2> QED BY <2>1, <2>2 DEF ClientInv, ProgressInv, Truthful, Done, LineInv, BusInv
<1>2. Inv /\ [ClientNext]_allvars => Inv'
  <2> SUFFICES ASSUME ClientInv, [ClientNext]_allvars PROVE ClientInv'
    OBVIOUS
  <2>1. LineInv' /\ ProgressInv' /\ Truthful'
    BY LineNext, ProgressNext, TruthfulNext DEF ClientInv
  <2> QED BY <2>1 DEF ClientInv
<1>3. Inv => Truthful
  BY DEF ClientInv
<1> HIDE DEF Inv
<1> QED BY <1>1, <1>2, <1>3, PTL DEF ClientSpec
===========================================================================
