------------------------ MODULE SystemMonitorProofs ------------------------
(* Theorems about SystemMonitor: the keyboard loop invents no key, and the *)
(* console gets what was to be printed.  First the arithmetic of putdec,   *)
(* then texts put one behind the other, then the two invariants.           *)
EXTENDS SystemMonitor, FiniteSetTheorems, SequenceTheorems, WellFoundedInduction, TLAPS

\* A shift and the carry it leaves round to the nearest.
LEMMA Rounded ==
  ASSUME NEW v \in Nat
  PROVE  /\ Shift(v, 4) + Carry(v, 4) = (v + 2) \div 4
         /\ Shift(v, 16) + Carry(v, 16) = (v + 8) \div 16
         /\ Shift(v, 256) + Carry(v, 256) = (v + 128) \div 256
  BY DEF Shift, Carry

\* A number of 16 bits is not changed by the width of a register.
LEMMA Fits16 == ASSUME NEW v \in Nat, v < 65536 PROVE v % 65536 = v
  OBVIOUS

\* An addition that stays below the width of a register.
LEMMA Rounding ==
  ASSUME NEW v \in Nat, NEW w \in Nat, NEW power, NEW t \in Nat,
         Shift(w, power) + Carry(w, power) = t, v + t < 65536
  PROVE  AddShifted(v, w, power) = v + t
<1>1. AddShifted(v, w, power) = (v + t) % 65536  BY DEF AddShifted, Add
<1>2. v + t \in Nat  OBVIOUS
<1> QED  BY <1>1, <1>2, Fits16

\* The shifts and additions of putdec give a tenth, or one less than it.
LEMMA QuotientBelow ==
  ASSUME NEW n \in Nat, n < 65536
  PROVE /\ Quotient(n) \in Nat
        /\ 10 * Quotient(n) <= n
        /\ n - 10 * Quotient(n) < 20
<1> DEFINE q1 == n \div 2 + (n + 2) \div 4
           q2 == q1 + (q1 + 8) \div 16
           q3 == q2 + (q2 + 128) \div 256
<1>1. q1 \in Nat /\ q1 < 65536 BY SMT
<1>2. q2 \in Nat /\ q2 < 65536 BY SMT
<1>3. q3 \in Nat /\ q3 < 65536 BY SMT
<1>4. 10 * (q3 \div 8) <= n /\ n - 10 * (q3 \div 8) < 20 BY SMT
<1>5. AddShifted(Shift(n, 2), n, 4) = q1
  <2> DEFINE h == n \div 2
             t == (n + 2) \div 4
  <2>1. h \in Nat /\ t \in Nat /\ Shift(n, 2) = h  BY DEF Shift
  <2>2. Shift(n, 4) + Carry(n, 4) = t  BY Rounded
  <2>3. h + t < 65536  BY <1>1
  <2> HIDE DEF h, t
  <2>4. AddShifted(h, n, 4) = h + t  BY <2>1, <2>2, <2>3, Rounding
  <2> QED  BY <2>1, <2>4 DEF h, t
<1>6. AddShifted(q1, q1, 16) = q2
  <2> HIDE DEF q1
  <2>1. (q1 + 8) \div 16 \in Nat BY <1>1
  <2> QED  BY <1>1, <1>2, <2>1, Rounded, Rounding
<1>7. AddShifted(q2, q2, 256) = q3
  <2> HIDE DEF q2
  <2>1. (q2 + 128) \div 256 \in Nat BY <1>2
  <2> QED  BY <1>2, <1>3, <2>1, Rounded, Rounding
<1> HIDE DEF q1, q2, q3
<1>8. Quotient(n) = q3 \div 8
  BY <1>5, <1>6, <1>7 DEF Quotient, Shift
<1>9. q3 \div 8 \in Nat  BY <1>3
<1> QED  BY <1>4, <1>8, <1>9

\* What the subtraction leaves is below twenty: no borrow is ever added.
LEMMA TenQuotients ==
  ASSUME NEW n \in Nat, n < 65536
  PROVE  LET q == Quotient(n)
             r == Remainder(n, q)
         IN /\ r \in Nat /\ r < 20 /\ r = n - 10 * q /\ q \in Nat /\ q < 6554
<1> DEFINE q == Quotient(n)
<1>1. q \in Nat /\ 10 * q <= n /\ n - 10 * q < 20  BY QuotientBelow
<1> HIDE DEF q
<1>2. Add(4 * q, q) = 5 * q  BY <1>1 DEF Add
<1>3. (((2 * q) % 65536) * 2) \div 65536 = 0
  <2>1. (2 * q) % 65536 = 2 * q  BY <1>1
  <2>2. (2 * q) * 2 = 4 * q  BY <1>1
  <2>3. (4 * q) \div 65536 = 0  BY <1>1
  <2> QED  BY <2>1, <2>2, <2>3
<1>4. Add(5 * q, 0) = 5 * q  BY <1>1 DEF Add
<1>5. Add(5 * q, 5 * q) = 10 * q  BY <1>1 DEF Add
<1>6. (2 * (5 * q)) \div 65536 = 0  BY <1>1
<1>7. Remainder(n, q) = (n - 10 * q - 0) % 65536
  BY <1>2, <1>3, <1>4, <1>5, <1>6 DEF Remainder
<1>8. Remainder(n, q) = n - 10 * q  BY <1>1, <1>7
<1> QED  BY <1>1, <1>8 DEF q

\* After the correction it is the quotient by ten and the digit of the rest.
LEMMA DivisionByTen ==
  ASSUME NEW n \in Nat, n < 65536
  PROVE  LET q == Quotient(n)
             r == Remainder(n, q)
             more == r % 256 >= 10
         IN /\ (IF more THEN Add(q, 1) ELSE q) = n \div 10
            /\ (48 + r - IF more THEN 10 ELSE 0) % 256 = 48 + (n % 10)
<1> DEFINE q == Quotient(n)
           r == Remainder(n, q)
           t == n \div 10
           m == n % 10
<1>1. r \in Nat /\ r < 20 /\ r = n - 10 * q /\ q \in Nat /\ q < 6554
  BY TenQuotients
<1> SUFFICES /\ (IF r % 256 >= 10 THEN Add(q, 1) ELSE q) = t
             /\ (48 + r - IF r % 256 >= 10 THEN 10 ELSE 0) % 256 = 48 + m
  OBVIOUS
<1> HIDE DEF q, r
<1>2. r % 256 = r /\ Add(q, 1) = q + 1  BY <1>1 DEF Add
<1>3. CASE r >= 10
  <2>1. t = q + 1 /\ m = r - 10  BY <1>1, <1>3
  <2>2. (38 + r) % 256 = 38 + r /\ 48 + r - 10 = 38 + r  BY <1>1, <1>3
  <2> HIDE DEF t, m
  <2>3. 48 + m = 38 + r  BY <1>1, <2>1
  <2> QED  BY <1>2, <1>3, <2>1, <2>2, <2>3
<1>4. CASE ~(r >= 10)
  <2>1. t = q /\ m = r  BY <1>1, <1>4
  <2>2. (48 + r) % 256 = 48 + r /\ 48 + r - 0 = 48 + r  BY <1>1, <1>4
  <2> HIDE DEF t, m
  <2> QED  BY <1>2, <1>4, <2>1, <2>2
<1> QED  BY <1>3, <1>4

\* The character of a decimal digit.
LEMMA DigitOfRemainder ==
  ASSUME NEW v \in Nat
  PROVE  Digit(v % 10) = 48 + (v % 10) /\ Digit(v % 10) \in Nat
<1> DEFINE m == v % 10
<1>1. m \in Nat /\ m < 10  OBVIOUS
<1> SUFFICES Digit(m) = 48 + m /\ Digit(m) \in Nat  OBVIOUS
<1> HIDE DEF m
<1> QED  BY <1>1 DEF Digit

\* What a place of the number is written with.
LEMMA PlaceType ==
  ASSUME NEW n \in Nat, NEW power \in Nat \ {0}
  PROVE  Place(n, power) \in Seq(Nat)
<1>1. n \div power \in Nat  OBVIOUS
<1>2. Digit((n \div power) % 10) \in Nat  BY <1>1, DigitOfRemainder
<1> QED  BY <1>2 DEF Place

\* Each digit of the tenth of a number is the next one of the number.
LEMMA NextPlace ==
  ASSUME NEW n \in Nat, NEW p \in Nat, NEW q \in Nat, p # 1, q # 1,
         n \div 10 >= p <=> n >= q, (n \div 10) \div p = n \div q
  PROVE  Place(n \div 10, p) = Place(n, q)
<1> DEFINE t == n \div 10
<1>1. t >= p <=> n >= q  OBVIOUS
<1>2. t \div p = n \div q  OBVIOUS
<1> SUFFICES Place(t, p) = Place(n, q)  OBVIOUS
<1> HIDE DEF t
<1> QED  BY <1>1, <1>2 DEF Place

\* What a number is written with.
LEMMA DecimalType ==
  ASSUME NEW n \in Nat PROVE Decimal(n) \in Seq(Nat)
<1> DEFINE w5 == Place(n, 10000)
           w4 == Place(n, 1000)
           w3 == Place(n, 100)
           w2 == Place(n, 10)
           w1 == Place(n, 1)
<1>1. /\ w5 \in Seq(Nat) /\ w4 \in Seq(Nat) /\ w3 \in Seq(Nat) /\ w2 \in Seq(Nat)
      /\ w1 \in Seq(Nat)
  <2>1. \A power \in Nat \ {0} : Place(n, power) \in Seq(Nat)  BY PlaceType
  <2> QED  BY <2>1, SMT
<1>2. Decimal(n) = w5 \o w4 \o w3 \o w2 \o w1  BY SMT DEF Decimal
<1> HIDE DEF w5, w4, w3, w2, w1
<1> QED  BY <1>1, <1>2, ConcatProperties

\* The last place is always written.
LEMMA LastPlace ==
  ASSUME NEW n \in Nat PROVE Place(n, 1) = <<48 + (n % 10)>>
<1>1. n \div 1 = n  OBVIOUS
<1>2. Digit(n % 10) = 48 + (n % 10)  BY DigitOfRemainder
<1> QED  BY <1>1, <1>2, SMT DEF Place

\* A number below ten has one digit.
LEMMA DecimalOne ==
  ASSUME NEW n \in Nat, n < 10 PROVE Decimal(n) = <<48 + (n % 10)>>
<1> DEFINE w5 == Place(n, 10000)
           w4 == Place(n, 1000)
           w3 == Place(n, 100)
           w2 == Place(n, 10)
           w1 == Place(n, 1)
<1>1. w5 = <<>> /\ w4 = <<>> /\ w3 = <<>> /\ w2 = <<>>  BY DEF Place
<1>2. Decimal(n) = w5 \o w4 \o w3 \o w2 \o w1  BY SMT DEF Decimal
<1>3. w1 \in Seq(Nat)  BY PlaceType
<1>4. w1 = <<48 + (n % 10)>>  BY LastPlace
<1> HIDE DEF w5, w4, w3, w2, w1
<1>5. <<>> \o <<>> = <<>> /\ <<>> \o w1 = w1
  <2>1. <<>> \in Seq(Nat)  OBVIOUS
  <2> QED  BY <1>3, <2>1, ConcatEmptySeq
<1>6. Decimal(n) = w1  BY <1>1, <1>2, <1>5
<1> QED  BY <1>4, <1>6

\* A number of 16 bits that has more than one digit.
Long(n) == n < 65536 /\ n >= 10

\* The digits of a number are those of its tenth and one more.
LEMMA DecimalMore ==
  ASSUME NEW n \in Nat, Long(n)
  PROVE  Decimal(n) = Decimal(n \div 10) \o <<48 + (n % 10)>>
<1> USE DEF Long
<1> DEFINE t == n \div 10
           w5 == Place(n, 10000)
           w4 == Place(n, 1000)
           w3 == Place(n, 100)
           w2 == Place(n, 10)
           w1 == Place(n, 1)
<1>1. /\ w5 \in Seq(Nat) /\ w4 \in Seq(Nat) /\ w3 \in Seq(Nat) /\ w2 \in Seq(Nat)
      /\ w1 \in Seq(Nat)
  <2>1. \A power \in Nat \ {0} : Place(n, power) \in Seq(Nat)  BY PlaceType
  <2> QED  BY <2>1, SMT
<1>2. Decimal(n) = w5 \o w4 \o w3 \o w2 \o w1  BY SMT DEF Decimal
<1>3. w1 = <<48 + (n % 10)>>  BY LastPlace
<1>4. Place(t, 1000) = w5
  <2>1. (t >= 1000 <=> n >= 10000) /\ t \div 1000 = n \div 10000  OBVIOUS
  <2> QED  BY <2>1, NextPlace
<1>5. Place(t, 100) = w4
  <2>1. (t >= 100 <=> n >= 1000) /\ t \div 100 = n \div 1000  OBVIOUS
  <2> QED  BY <2>1, NextPlace
<1>6. Place(t, 10) = w3
  <2>1. (t >= 10 <=> n >= 100) /\ t \div 10 = n \div 100  OBVIOUS
  <2> QED  BY <2>1, NextPlace
<1>7. Place(t, 1) = w2
  <2>1. t \div 1 = t  OBVIOUS
  <2>2. w2 = <<Digit(t % 10)>>  BY SMT DEF Place
  <2> HIDE DEF t, w2
  <2>3. Place(t, 1) = <<Digit((t \div 1) % 10)>>  BY SMT DEF Place
  <2> QED  BY <2>1, <2>2, <2>3, SMT
<1>8. Place(t, 10000) = <<>>
  <2>1. t \in Nat /\ t < 10000  OBVIOUS
  <2> HIDE DEF t
  <2> QED  BY <2>1 DEF Place
<1> HIDE DEF t, w5, w4, w3, w2, w1
<1>9. Decimal(t) = <<>> \o w5 \o w4 \o w3 \o Place(t, 1)
  <2>1. Decimal(t) = Place(t, 10000) \o Place(t, 1000) \o Place(t, 100)
                       \o Place(t, 10) \o Place(t, 1)
    BY SMT DEF Decimal
  <2> DEFINE p5 == Place(t, 10000)
             p4 == Place(t, 1000)
             p3 == Place(t, 100)
             p2 == Place(t, 10)
             p1 == Place(t, 1)
  <2>2. Decimal(t) = p5 \o p4 \o p3 \o p2 \o p1  BY <2>1
  <2>3. p5 = <<>> /\ p4 = w5 /\ p3 = w4 /\ p2 = w3
    BY <1>4, <1>5, <1>6, <1>8
  <2> HIDE DEF p5, p4, p3, p2
  <2> QED  BY <2>2, <2>3
<1>10. Decimal(t) = w5 \o w4 \o w3 \o w2
  <2>1. <<>> \o w5 = w5  BY <1>1, ConcatEmptySeq
  <2> QED  BY <1>7, <1>9, <2>1
<1>11. Decimal(n) = Decimal(t) \o w1  BY <1>2, <1>10
<1> QED  BY <1>3, <1>11 DEF t
---------------------------------------------------------------------------
(* Texts put one behind the other.                                         *)

\* The order of the natural numbers, which is well founded.
Less == {ss \in Nat \X Nat : ss[1] < ss[2]}

\* It has no endless descent.
LEMMA LessWF == IsWellFoundedOn(Less, Nat)
  BY NatLessThanWellFounded, Zenon DEF OpToRel, Less

\* A set with 0 and the successor of each of its numbers has all of them.
LEMMA SetInduction ==
  ASSUME NEW S, 0 \in S, \A n \in Nat : n \in S => n + 1 \in S
  PROVE  Nat \subseteq S
<1> DEFINE T == Nat \ S
<1>1. ASSUME T # {} PROVE FALSE
  <2>1. PICK x \in T : \A y \in T : ~ (<<y, x>> \in Less)
    BY <1>1, LessWF, WFMin, Zenon
  <2>2. \A y \in T : ~(y < x)  BY <2>1 DEF Less
  <2>3. x # 0 /\ x - 1 \in Nat /\ x - 1 < x  OBVIOUS
  <2>4. x - 1 \in S  BY <2>2, <2>3
  <2> QED  BY <2>3, <2>4
<1> QED  BY <1>1

\* f[j] is the first j texts put one behind the other.
Joined(s, n, f) == f = [j \in 1 .. n |-> IF j = 1 THEN s[j] ELSE f[j - 1] \o s[j]]

\* There is such a function, for any number of texts.
LEMMA JoinedExists ==
  ASSUME NEW s, NEW n \in Nat
  PROVE  \E f : Joined(s, n, f)
<1> DEFINE Good == {m \in Nat : \E f : Joined(s, m, f)}
<1>1. 0 \in Good
  <2>1. Joined(s, 0, <<>>)  BY DEF Joined
  <2> QED  BY <2>1
<1>2. ASSUME NEW m \in Nat, m \in Good PROVE m + 1 \in Good
  <2>1. PICK f : Joined(s, m, f)  BY <1>2
  <2> DEFINE next(h, j) == IF j = 1 THEN s[j] ELSE h[j - 1] \o s[j]
             g == [j \in 1 .. m + 1 |-> IF j <= m THEN f[j] ELSE next(f, j)]
  <2>2. \A j \in 1 .. m : f[j] = next(f, j)  BY <2>1 DEF Joined
  <2>3. \A j \in 1 .. m + 1 : g[j] = next(g, j)  BY <2>2
  <2>4. g = [j \in 1 .. m + 1 |-> next(g, j)]
    <3> DEFINE h == [j \in 1 .. m + 1 |-> next(g, j)]
    <3>1. \A j \in 1 .. m + 1 : g[j] = h[j]  BY <2>3
    <3> QED  BY <3>1
  <2>5. Joined(s, m + 1, g)  BY <2>4 DEF Joined
  <2> QED  BY <2>5
<1> HIDE DEF Good
<1>3. Nat \subseteq Good  BY <1>1, <1>2, SetInduction
<1> QED  BY <1>3 DEF Good

\* It is the same for all lists that begin with the same texts.
LEMMA JoinedAgree ==
  ASSUME NEW s, NEW t, NEW n \in Nat, NEW m \in Nat, n <= m,
         NEW f, Joined(s, n, f), NEW g, Joined(t, m, g),
         \A j \in 1 .. n : s[j] = t[j]
  PROVE  \A j \in 1 .. n : f[j] = g[j]
<1> DEFINE Good == {j \in Nat : j + 1 <= n => f[j + 1] = g[j + 1]}
<1>1. \A j \in 1 .. n :
        /\ f[j] = IF j = 1 THEN s[j] ELSE f[j - 1] \o s[j]
        /\ g[j] = IF j = 1 THEN t[j] ELSE g[j - 1] \o t[j]
  <2>1. \A j \in 1 .. n : f[j] = IF j = 1 THEN s[j] ELSE f[j - 1] \o s[j]
    BY DEF Joined
  <2>2. \A j \in 1 .. m : g[j] = IF j = 1 THEN t[j] ELSE g[j - 1] \o t[j]
    BY DEF Joined
  <2> QED  BY <2>1, <2>2
<1>2. 0 \in Good  BY <1>1
<1>3. ASSUME NEW j \in Nat, j \in Good PROVE j + 1 \in Good
  <2> SUFFICES ASSUME (j + 1) + 1 <= n PROVE f[(j + 1) + 1] = g[(j + 1) + 1]
    OBVIOUS
  <2>1. /\ (j + 1) + 1 \in 1 .. n /\ ((j + 1) + 1) - 1 = j + 1
        /\ (j + 1) + 1 # 1
    OBVIOUS
  <2>2. f[j + 1] = g[j + 1]  BY <1>3
  <2> QED  BY <1>1, <2>1, <2>2
<1> HIDE DEF Good
<1>4. Nat \subseteq Good  BY <1>2, <1>3, SetInduction
<1>5. ASSUME NEW j \in 1 .. n PROVE f[j] = g[j]
  <2>1. j - 1 \in Nat /\ (j - 1) + 1 = j /\ j <= n  OBVIOUS
  <2> QED  BY <1>4, <2>1 DEF Good
<1> QED  BY <1>5

\* All the texts together are the last of these.
LEMMA FlattenIsJoined ==
  ASSUME NEW s, Len(s) \in Nat \ {0}
  PROVE  \E f : Joined(s, Len(s), f) /\ FlattenSeq(s) = f[Len(s)]
<1> DEFINE f == CHOOSE g : Joined(s, Len(s), g)
<1>1. Joined(s, Len(s), f)  BY JoinedExists
<1>2. FlattenSeq(s) = f[Len(s)]  BY DEF FlattenSeq, Joined
<1> QED  BY <1>1, <1>2

\* One more text comes behind all the others.
LEMMA FlattenAppend ==
  ASSUME NEW s \in Seq(Seq(Nat)), NEW x \in Seq(Nat)
  PROVE  FlattenSeq(Append(s, x)) = FlattenSeq(s) \o x
<1> DEFINE t == Append(s, x)
           n == Len(s)
<1>1. /\ n \in Nat /\ Len(t) = n + 1 /\ t[n + 1] = x
      /\ \A j \in 1 .. n : s[j] = t[j]
  BY AppendProperties
<1>2. PICK g : Joined(t, n + 1, g) /\ FlattenSeq(t) = g[n + 1]
  <2>1. Len(t) \in Nat \ {0}  BY <1>1
  <2> QED  BY <1>1, <2>1, FlattenIsJoined
<1> HIDE DEF t
<1>3. g[n + 1] = IF n = 0 THEN x ELSE g[n] \o x
  <2>1. \A j \in 1 .. n + 1 : g[j] = IF j = 1 THEN t[j] ELSE g[j - 1] \o t[j]
    BY <1>2 DEF Joined
  <2>2. n + 1 \in 1 .. n + 1 /\ (n + 1) - 1 = n /\ (n + 1 = 1 <=> n = 0)
    BY <1>1
  <2> QED  BY <1>1, <2>1, <2>2
<1>4. CASE n = 0
  <2>1. s = <<>>  BY <1>4, EmptySeq
  <2>2. FlattenSeq(s) = <<>>  BY <2>1 DEF FlattenSeq
  <2> QED  BY <1>2, <1>3, <1>4, <2>2, ConcatEmptySeq DEF t
<1>5. CASE n # 0
  <2>1. PICK f : Joined(s, n, f) /\ FlattenSeq(s) = f[n]
    BY <1>1, <1>5, FlattenIsJoined
  <2>2. f[n] = g[n]
    <3>1. \A j \in 1 .. n : f[j] = g[j]
      <4>1. n <= n + 1 /\ n + 1 \in Nat  BY <1>1
      <4> HIDE DEF n
      <4> QED  BY <1>1, <1>2, <2>1, <4>1, JoinedAgree
    <3> QED  BY <1>1, <1>5, <3>1
  <2> QED  BY <1>2, <1>3, <1>5, <2>1, <2>2 DEF t
<1> QED  BY <1>4, <1>5
---------------------------------------------------------------------------
(* What the processor is at.                                               *)

\* Where the program polls the keyboard, or has not started.
Waiting == {"_start", "loop", "cp", "ld", "jr"}
\* Where it writes the message of a scancode.
Message == {"puts", "puts_cp", "puts_jr", "puts_inc"}
\* Where it writes the digits and the end of the line.
Digits == {"puthex_msd", "puthex_lsd", "crlf_lf", "crlf_cr"}
\* Where a character is written.
Writing == {"putchar", "wait_in", "wait_bit", "wait_jr", "ld_d", "out"}
\* Where putchar returns to in the keyboard loop.
Returns == {"puts_inc", "puthex_lsd", "crlf_lf", "crlf_cr", "loop"}

\* Places at which comparison, copy and jump of the loop are under way.
Comparing == {"cp", "ld", "jr"}

\* What may be in A, and so be reported: a scancode, or what the handler leaves.
Codes == Scancodes \cup {EOI}
\* A code to be reported.
Scan == [kind : {"scancode"}, v : Codes]

\* The program of sysmon.asm, which reports scancodes.
Scanning ==
  /\ pc \in Waiting \cup Message \cup Digits \cup Writing
  /\ pc \in Writing => ret \in Returns
  /\ kbd \in held /\ held \subseteq Scancodes /\ regs.e \in Codes
  /\ pc \in {"cp", "ld"} => a \in Codes
  /\ asked \in Seq(Scan)

\* The program that prints a number: no interrupt is enabled, no key pressed.
Counting ==
  /\ pc \in {"putdec", "putdec_3", "halt"} \cup Writing
  /\ pc \in Writing => ret = "putdec_3"
  /\ iff = FALSE /\ keys = MaxKeys
  /\ \E n \in Numbers : asked = <<[kind |-> "number", v |-> n]>>

\* The processor runs one of the two.
Running ==
  /\ DOMAIN regs = {"d", "e", "hl"}
  /\ Scanning \/ Counting

\* The last code reported, if there is one.
LastIs(code) == asked # <<>> => asked[Len(asked)].v = code

\* What the loop knows whatever A is: that no code but the one in register e
\* was reported last, or it will report that one next.
Kept ==
  /\ pc \notin {"ld", "jr"} => LastIs(regs.e)
  /\ pc = "ld" /\ z => LastIs(a)
  /\ pc = "jr" /\ z => LastIs(regs.e)

\* What the three instructions of the loop know if A is what was read.
Compared ==
  /\ pc \in {"cp", "ld"} => a \in held
  /\ pc = "ld" => (z <=> a = regs.e) /\ LastIs(regs.e)
  /\ pc = "jr" /\ ~z => /\ regs.e \in held
                        /\ asked # <<>> => asked[Len(asked)].v # regs.e

\* No interrupt has come yet.
Fresh == iff \/ pc = "_start"

\* The loop reports what it has read, or has been misled and has reported
\* nothing wrong so far.
Honest ==
  \/ Compared /\ (Fresh => Ghosts = {}) /\ \E k \in Nat : Ghosts \subseteq {k}
  \/ pc \in Comparing /\ ~Fresh /\ Ghosts = {}

\* The invariant of NoKeyInvented.
Keys == Running /\ (Scanning => Kept /\ Honest)

\* It holds at the start.
LEMMA KeysInit == ASSUME Init PROVE Keys
<1>1. CASE pc = "_start" /\ asked = <<>> /\ kbd \in Scancodes
           /\ regs \in [d : {0}, e : Scancodes, hl : {0}]
  <2>1. DOMAIN regs = {"d", "e", "hl"} /\ regs.e \in Scancodes  BY <1>1
  <2>2. Scanning  BY <1>1, <2>1 DEF Init, Scanning, Waiting, Writing, Codes
  <2>3. Compared /\ Kept  BY <1>1 DEF Compared, Kept, LastIs
  <2>4. Ghosts = {}  BY <1>1 DEF Ghosts
  <2>5. Ghosts \subseteq {0} /\ 0 \in Nat  BY <2>4
  <2> QED  BY <2>1, <2>2, <2>3, <2>4, <2>5 DEF Keys, Running, Honest
<1>2. CASE /\ pc = "putdec" /\ keys = MaxKeys
           /\ \E n \in Numbers : regs = [d |-> 0, e |-> 0, hl |-> n]
                                 /\ asked = <<[kind |-> "number", v |-> n]>>
  BY <1>2 DEF Init, Keys, Running, Scanning, Counting, Waiting, Message, Digits,
     Writing
<1> QED  BY <1>1, <1>2 DEF Init

\* A number is no list of scancodes.
LEMMA NumberIsNoScan ==
  ASSUME NEW n, asked = <<[kind |-> "number", v |-> n]>> PROVE asked \notin Seq(Scan)
<1>1. asked[1].kind = "number" /\ 1 \in 1 .. Len(asked)  OBVIOUS
<1>2. asked \in Seq(Scan) => asked[1] \in Scan  BY <1>1
<1>3. \A r \in Scan : r.kind = "scancode"  BY DEF Scan
<1> QED  BY <1>1, <1>2, <1>3

\* A code that the keyboard has held stays one.
LEMMA GhostsStay ==
  ASSUME asked' = asked, held \subseteq held' PROVE Ghosts' \subseteq Ghosts
  BY DEF Ghosts

\* One more report is one more ghost at most, and none if it is true.
LEMMA GhostsMore ==
  ASSUME asked \in Seq(Scan), NEW r \in Scan, asked' = Append(asked, r), held' = held
  PROVE  /\ Ghosts' \subseteq Ghosts \cup {Len(asked) + 1}
         /\ r.v \in held /\ (asked # <<>> => asked[Len(asked)].v # r.v) =>
              Ghosts' \subseteq Ghosts
<1> DEFINE n == Len(asked)
           t == asked'
<1>1. /\ n \in Nat /\ Len(t) = n + 1 /\ t[n + 1] = r /\ t \in Seq(Scan)
      /\ \A j \in 1 .. n : t[j] = asked[j]
  BY AppendProperties
<1>2. DOMAIN t = 1 .. n + 1 /\ DOMAIN asked = 1 .. n
  BY <1>1
<1> HIDE DEF t
<1>3. Ghosts' = {j \in DOMAIN t : /\ t[j].kind = "scancode"
                                  /\ \/ t[j].v \notin held
                                     \/ j > 1 /\ t[j].v = t[j - 1].v}
  BY DEF Ghosts, t
<1>4. ASSUME NEW j \in 1 .. n, j \in Ghosts' PROVE j \in Ghosts
  <2>1. t[j] = asked[j]  BY <1>1
  <2>2. j > 1 => t[j - 1] = asked[j - 1]
    <3>1. j > 1 => j - 1 \in 1 .. n  BY <1>1
    <3> QED  BY <1>1, <3>1
  <2> QED  BY <1>2, <1>3, <1>4, <2>1, <2>2 DEF Ghosts
<1>5. \A j \in Ghosts' : j \in 1 .. n \/ j = n + 1
  BY <1>1, <1>2, <1>3
<1>6. ASSUME r.v \in held, asked # <<>> => asked[n].v # r.v PROVE n + 1 \notin Ghosts'
  <2>1. n + 1 > 1 => n \in 1 .. n /\ asked # <<>> /\ (n + 1) - 1 = n
    BY <1>1
  <2> QED  BY <1>1, <1>3, <1>6, <2>1
<1> QED  BY <1>4, <1>5, <1>6

\* Steps that neither poll the keyboard nor change register e.
LEMMA KeysKept ==
  ASSUME Keys, UNCHANGED <<asked, kbd, held>>, pc \notin Comparing, pc' \notin Comparing,
         DOMAIN regs' = DOMAIN regs, regs'.e = regs.e,
         Fresh' => Fresh,
         Scanning' \/ Counting',
         Scanning' => Scanning
  PROVE  Keys'
<1>1. Running'  BY DEF Keys, Running
<1>2. ASSUME Scanning' PROVE Kept' /\ Honest'
  <2>1. Scanning /\ Kept /\ Honest  BY <1>2 DEF Keys
  <2>2. Compared /\ (Fresh => Ghosts = {}) /\ \E k \in Nat : Ghosts \subseteq {k}
    BY <2>1 DEF Honest
  <2>3. Ghosts' = Ghosts  BY DEF Ghosts
  <2>4. Kept' /\ Compared'  BY <2>1, <2>2 DEF Kept, Compared, LastIs, Comparing
  <2> QED  BY <2>2, <2>3, <2>4 DEF Honest
<1> QED  BY <1>1, <1>2 DEF Keys

\* The keyboard loop keeps it.
LEMMA KeysPolling ==
  ASSUME Keys, _start \/ loop \/ cp_e \/ ld_e \/ jr_z PROVE Keys'
<1> USE DEF Goes, keyboard, uart
<1>1. Scanning /\ Kept /\ Honest /\ DOMAIN regs = {"d", "e", "hl"}
  BY DEF _start, loop, cp_e, ld_e, jr_z, Counting, Writing, Keys, Running
<1>2. UNCHANGED <<kbd, held>>
  BY DEF _start, loop, cp_e, ld_e, jr_z
<1>3. CASE _start \/ loop
  <2>1. /\ UNCHANGED <<regs, asked>>
        /\ \/ pc = "_start" /\ pc' = "loop"
           \/ pc = "loop" /\ pc' = "cp" /\ a' = kbd /\ iff' = iff
    BY <1>3 DEF _start, loop
  <2>2. Scanning'
    BY <1>1, <1>2, <2>1 DEF Scanning, Waiting, Writing, Codes
  <2>3. Compared' /\ Kept'
    BY <1>1, <1>2, <2>1 DEF Scanning, Kept, Compared, LastIs
  <2>4. Ghosts' = Ghosts  BY <1>2, <2>1 DEF Ghosts
  <2>5. /\ Fresh => Ghosts = {}
        /\ \E k \in Nat : Ghosts \subseteq {k}
        /\ Fresh' => Fresh
    BY <1>1, <2>1 DEF Honest, Comparing, Fresh
  <2> QED  BY <1>1, <2>1, <2>2, <2>3, <2>4, <2>5 DEF Keys, Running, Honest
<1>4. CASE cp_e \/ ld_e
  <2>1. /\ UNCHANGED <<asked, a, iff>>
        /\ \/ pc = "cp" /\ pc' = "ld" /\ z' = (a = regs.e) /\ regs' = regs
           \/ pc = "ld" /\ pc' = "jr" /\ z' = z /\ regs' = [regs EXCEPT !.e = a]
    BY <1>4 DEF cp_e, ld_e
  <2>2. DOMAIN regs' = {"d", "e", "hl"} /\ (pc = "ld" => regs'.e = a)
    BY <1>1, <2>1
  <2>3. Scanning'
    BY <1>1, <1>2, <2>1, <2>2 DEF Scanning, Waiting, Writing
  <2>4. Kept'
    <3>1. CASE pc = "cp"
      <4>1. pc' = "ld" /\ asked' = asked /\ a' = a /\ (z' <=> a = regs.e) /\ LastIs(regs.e)
        BY <1>1, <2>1, <3>1 DEF Kept
      <4> QED  BY <4>1 DEF Kept, LastIs
    <3>2. CASE pc = "ld"
      <4>1. pc' = "jr" /\ asked' = asked /\ z' = z /\ regs'.e = a /\ (z => LastIs(a))
        BY <1>1, <2>1, <2>2, <3>2 DEF Kept
      <4> QED  BY <4>1 DEF Kept, LastIs
    <3> QED  BY <2>1, <3>1, <3>2
  <2>5. Compared => Compared'
    BY <1>1, <1>2, <2>1, <2>2 DEF Kept, Compared, LastIs
  <2>6. Ghosts' = Ghosts  BY <1>2, <2>1 DEF Ghosts
  <2>7. Fresh' = Fresh /\ pc' \in Comparing
    BY <2>1 DEF Fresh, Comparing
  <2>8. Honest'  BY <1>1, <2>5, <2>6, <2>7 DEF Honest
  <2> QED  BY <2>2, <2>3, <2>4, <2>8 DEF Keys, Running
<1>5. CASE jr_z /\ z
  <2>1. pc = "jr" /\ pc' = "loop" /\ UNCHANGED <<regs, asked, iff>>
    BY <1>5 DEF jr_z
  <2>2. Scanning'  BY <1>1, <1>2, <2>1 DEF Scanning, Waiting, Writing
  <2>3. Compared' /\ Kept'  BY <1>1, <1>5, <2>1 DEF Kept, Compared, LastIs
  <2>4. Ghosts' = Ghosts  BY <1>2, <2>1 DEF Ghosts
  <2>5. /\ Fresh => Ghosts = {}
        /\ \E k \in Nat : Ghosts \subseteq {k}
    <3>1. Ghosts = {} => Ghosts \subseteq {0} /\ 0 \in Nat  OBVIOUS
    <3> QED  BY <1>1, <3>1 DEF Honest
  <2>6. Fresh' => Fresh  BY <2>1 DEF Fresh
  <2> QED  BY <1>1, <2>1, <2>2, <2>3, <2>4, <2>5, <2>6 DEF Keys, Running, Honest
<1>6. CASE jr_z /\ ~z
  <2> DEFINE r == [kind |-> "scancode", v |-> regs.e]
             n == Len(asked)
  <2>1. /\ pc = "jr" /\ pc' = "puts" /\ regs' = [regs EXCEPT !.hl = 1]
        /\ asked' = Append(asked, r) /\ iff' = iff
    BY <1>6 DEF jr_z
  <2>2. r \in Scan /\ r.v = regs.e /\ asked \in Seq(Scan)  BY <1>1 DEF Scanning, Scan
  <2>3. regs'.e = regs.e /\ DOMAIN regs' = DOMAIN regs  BY <1>1, <2>1
  <2> HIDE DEF r
  <2>4. /\ asked' \in Seq(Scan) /\ Len(asked') = n + 1 /\ n \in Nat
        /\ asked'[n + 1] = r
    BY <2>1, <2>2, AppendProperties
  <2>5. Scanning'
    BY <1>1, <1>2, <2>1, <2>3, <2>4 DEF Scanning, Waiting, Message, Writing
  <2>6. Kept' /\ Compared'
    BY <2>1, <2>2, <2>3, <2>4 DEF Kept, Compared, LastIs
  <2>7. /\ Ghosts' \subseteq Ghosts \cup {n + 1}
        /\ r.v \in held /\ (asked # <<>> => asked[n].v # r.v) => Ghosts' \subseteq Ghosts
    BY <1>2, <2>1, <2>2, GhostsMore
  <2>8. (Fresh' => Fresh) /\ pc = "jr"  BY <2>1 DEF Fresh
  <2>9. CASE Compared /\ (Fresh => Ghosts = {}) /\ \E k \in Nat : Ghosts \subseteq {k}
    <3>1. Ghosts' \subseteq Ghosts  BY <1>6, <2>1, <2>2, <2>7, <2>9 DEF Compared
    <3> QED  BY <1>1, <2>3, <2>5, <2>6, <2>8, <2>9, <3>1 DEF Keys, Running, Honest
  <2>10. CASE ~Fresh /\ Ghosts = {}
    <3>1. Ghosts' \subseteq {n + 1} /\ n + 1 \in Nat  BY <2>4, <2>7, <2>10
    <3> QED  BY <1>1, <2>3, <2>5, <2>6, <2>8, <2>10, <3>1 DEF Keys, Running, Honest
  <2> QED  BY <1>1, <2>9, <2>10 DEF Honest
<1> QED  BY <1>3, <1>4, <1>5, <1>6

\* Printing keeps it, as it leaves register e and the keyboard alone.
LEMMA KeysPrinting == ASSUME Keys, Printing PROVE Keys'
<1> USE DEF Goes, keyboard, uart
<1>1. /\ UNCHANGED <<asked, kbd, held, keys, iff>> /\ pc \notin Comparing
      /\ DOMAIN regs = {"d", "e", "hl"}
  BY DEF Printing, puts, puts_cp, puts_jr, puts_inc, print, putchar,
     _putchar_wait_txe, wait_bit, wait_jr, ld_a_d, out, putdec, _putdec_3,
     Character, Keys, Running, Comparing
<1>2. DOMAIN regs' = DOMAIN regs /\ regs'.e = regs.e
  BY <1>1 DEF Printing, puts, puts_cp, puts_jr, puts_inc, print, putchar,
     _putchar_wait_txe, wait_bit, wait_jr, ld_a_d, out, putdec, _putdec_3
<1>3. CASE Scanning
  <2>1. pc' \in Message \cup Digits \cup Writing \cup {"loop"}
        /\ (pc' \in Writing => ret' \in Returns)
    BY <1>3 DEF Printing, puts, puts_cp, puts_jr, puts_inc, print, putchar,
       _putchar_wait_txe, wait_bit, wait_jr, ld_a_d, out, putdec, _putdec_3,
       Character, Scanning, Waiting, Message, Digits, Writing, Returns
  <2>2. Scanning'
    <3>1. pc' \notin {"cp", "ld"}  BY <2>1 DEF Message, Digits, Writing
    <3> QED  BY <1>1, <1>2, <1>3, <2>1, <3>1 DEF Scanning, Waiting
  <2>3. pc' \notin Comparing /\ (Fresh' => Fresh)  BY <1>1, <2>1 DEF Message, Digits, Writing, Comparing, Fresh
  <2> QED  BY <1>1, <1>2, <1>3, <2>2, <2>3, KeysKept
<1>4. CASE ~Scanning
  <2>1. Counting  BY <1>4 DEF Keys, Running
  <2>2. /\ pc' \in {"putdec", "putdec_3", "halt"} \cup Writing
        /\ pc' \in Writing => ret' = "putdec_3"
    BY <2>1 DEF Printing, puts, puts_cp, puts_jr, puts_inc, print, putchar,
       _putchar_wait_txe, wait_bit, wait_jr, ld_a_d, out, putdec, _putdec_3,
       Character, Counting, Writing
  <2>3. Counting'  BY <1>1, <2>1, <2>2 DEF Counting
  <2>4. ~Scanning'
    <3>1. PICK n \in Numbers : asked = <<[kind |-> "number", v |-> n]>>
      BY <2>1 DEF Counting
    <3>2. asked' \notin Seq(Scan)  BY <1>1, <3>1, NumberIsNoScan
    <3> QED  BY <3>2 DEF Scanning
  <2>5. pc' \notin Comparing /\ (Fresh' => Fresh)  BY <1>1, <2>2 DEF Writing, Comparing, Fresh
  <2> QED  BY <1>1, <1>2, <2>3, <2>4, <2>5, KeysKept
<1> QED  BY <1>3, <1>4

\* Every step keeps it, wherever the handler comes.
LEMMA KeysStep ==
  ASSUME Keys, [Next]_vars PROVE Keys'
<1> USE DEF keyboard, uart, cpu
<1>1. CASE Program  BY <1>1, KeysPolling, KeysPrinting DEF Program, Polling
<1>2. CASE isr0_handler
  <2>1. /\ UNCHANGED <<asked, kbd, held, pc, ret, regs>> /\ iff /\ ~iff'
        /\ a' = EOI /\ z' = FALSE
    BY <1>2 DEF isr0_handler
  <2>2. Scanning /\ Scanning' /\ Kept /\ Honest
    BY <2>1 DEF Keys, Running, Counting, Scanning, Codes
  <2>3. Ghosts = {} /\ Ghosts' = Ghosts /\ 0 \in Nat
    <3>1. Fresh /\ Ghosts' = Ghosts  BY <2>1 DEF Fresh, Ghosts
    <3> QED  BY <2>2, <3>1 DEF Honest
  <2>4. Kept'  BY <2>1, <2>2 DEF Kept, LastIs
  <2>5. CASE pc \in Comparing
    <3>1. pc' \in Comparing /\ ~Fresh'  BY <2>1, <2>5 DEF Comparing, Fresh
    <3> QED  BY <2>1, <2>2, <2>3, <2>4, <3>1 DEF Keys, Running, Honest
  <2>6. CASE pc \notin Comparing
    <3>1. Compared'  BY <2>1, <2>6 DEF Comparing, Compared
    <3>2. Ghosts' \subseteq {0}  BY <2>3
    <3> QED  BY <2>1, <2>2, <2>3, <2>4, <3>1, <3>2 DEF Keys, Running, Honest
  <2> QED  BY <2>5, <2>6
<1>3. CASE press
  <2>1. keys < MaxKeys /\ MaxKeys \in Nat /\ kbd' \in Scancodes
        /\ UNCHANGED <<cpu, asked>> /\ held' = held \cup {kbd'}
    BY <1>3, MonitorAssumption DEF press
  <2>2. Scanning /\ Scanning'
    BY <2>1 DEF Keys, Running, Counting, Scanning
  <2>3. Ghosts' \subseteq Ghosts  BY <2>1, GhostsStay
  <2>4. Kept' /\ (Compared => Compared')
    BY <2>1, <2>2 DEF Keys, Kept, Compared, LastIs
  <2>5. Fresh' = Fresh /\ pc' = pc  BY <2>1 DEF Fresh
  <2>6. Honest'  BY <2>2, <2>3, <2>4, <2>5 DEF Keys, Honest
  <2> QED  BY <2>1, <2>2, <2>4, <2>6 DEF Keys, Running
<1>4. CASE transmit \/ UNCHANGED vars
  <2>1. UNCHANGED <<pc, ret, a, z, regs, iff, kbd, held, keys, asked>>
    BY <1>4 DEF transmit, vars
  <2>2. (Scanning' <=> Scanning) /\ (Counting' <=> Counting)
    BY <2>1 DEF Scanning, Counting
  <2>3. (Kept' <=> Kept) /\ (Honest' <=> Honest)
    BY <2>1 DEF Kept, Honest, Compared, LastIs, Ghosts, Fresh
  <2> QED  BY <2>1, <2>2, <2>3 DEF Keys, Running
<1> QED  BY <1>1, <1>2, <1>3, <1>4 DEF Next

\* It says what NoGhostKeys says.
LEMMA KeysReal == ASSUME Keys PROVE NoGhostKeys
<1>1. Cardinality({}) = 0  BY FS_EmptySet
<1>2. \A k \in Nat : Ghosts \subseteq {k} => Cardinality(Ghosts) <= 1
  <2> SUFFICES ASSUME NEW k \in Nat, Ghosts \subseteq {k} PROVE Cardinality(Ghosts) <= 1
    OBVIOUS
  <2>1. Ghosts = {} \/ Ghosts = {k}  OBVIOUS
  <2>2. Cardinality({k}) = 1  BY FS_Singleton
  <2>3. Cardinality(Ghosts) \in {0, 1}  BY <1>1, <2>1, <2>2
  <2> QED  BY <2>3
<1>3. CASE Scanning
  <2>1. iff => Ghosts = {}  BY <1>3 DEF Keys, Honest, Fresh
  <2>2. Ghosts = {} \/ \E k \in Nat : Ghosts \subseteq {k}  BY <1>3 DEF Keys, Honest
  <2> QED  BY <1>1, <1>2, <2>1, <2>2 DEF NoGhostKeys
<1>4. CASE Counting
  <2>1. PICK n \in Numbers : asked = <<[kind |-> "number", v |-> n]>>
    BY <1>4 DEF Counting
  <2>2. \A j \in DOMAIN asked : asked[j].kind = "number"  BY <2>1
  <2>3. Ghosts = {}  BY <2>2 DEF Ghosts
  <2> QED  BY <1>1, <2>3 DEF NoGhostKeys
<1> QED  BY <1>3, <1>4 DEF Keys, Running

\* NoGhostKeys for all constants, wherever the interrupt comes: every code
\* reported is one the keyboard has held and not the one before again, but for
\* one that an interrupt, which overwrites A and the flags, may have put
\* between the reading of the keyboard and the jump.
THEOREM NoKeyInvented == Spec => []NoGhostKeys
<1>1. Init => Keys  BY KeysInit
<1>2. Keys /\ [Next]_vars => Keys'  BY KeysStep
<1>3. Keys => NoGhostKeys  BY KeysReal
<1> QED  BY <1>1, <1>2, <1>3, PTL DEF Spec
---------------------------------------------------------------------------
(* The console without the text of the handler.                            *)

\* The characters of the program alone.
Stripped(s) ==
  IF ISR \in Range(s)
    THEN RemoveAt(s, CHOOSE j \in DOMAIN s : s[j] = ISR)
    ELSE s

\* The handler has written at most once.
Once(s) == \A j, k \in DOMAIN s : s[j] = ISR /\ s[k] = ISR => j = k

\* Texts can be put together in any order.
LEMMA Associative ==
  ASSUME NEW s \in Seq(Nat), NEW t \in Seq(Nat), NEW u \in Seq(Nat)
  PROVE  (s \o t) \o u = s \o (t \o u)
  BY ConcatAssociative

\* Where it has, the text is the only thing removed.
LEMMA StrippedAt ==
  ASSUME NEW s \in Seq(Nat), Once(s), NEW j \in 1 .. Len(s), s[j] = ISR
  PROVE  Stripped(s) = SubSeq(s, 1, j - 1) \o SubSeq(s, j + 1, Len(s))
<1> DEFINE k == CHOOSE i \in DOMAIN s : s[i] = ISR
<1>1. j \in DOMAIN s  OBVIOUS
<1>2. k \in DOMAIN s /\ s[k] = ISR  BY <1>1
<1>3. k = j  BY <1>1, <1>2 DEF Once
<1>4. ISR \in Range(s)  BY <1>1 DEF Range
<1>5. Stripped(s) = RemoveAt(s, k)  BY <1>4 DEF Stripped
<1> QED  BY <1>3, <1>5 DEF RemoveAt

\* What is left is a text.
LEMMA StrippedType ==
  ASSUME NEW s \in Seq(Nat), Once(s) PROVE Stripped(s) \in Seq(Nat)
<1>1. CASE ISR \in Range(s)
  <2>1. PICK j \in 1 .. Len(s) : s[j] = ISR  BY <1>1 DEF Range
  <2>2. SubSeq(s, 1, j - 1) \in Seq(Nat) /\ SubSeq(s, j + 1, Len(s)) \in Seq(Nat)
    OBVIOUS
  <2> QED  BY <2>1, <2>2, StrippedAt, ConcatProperties
<1>2. CASE ISR \notin Range(s)  BY <1>2 DEF Stripped
<1> QED  BY <1>1, <1>2

\* A character appended is the last of every tail.
LEMMA TailAppended ==
  ASSUME NEW s \in Seq(Nat), NEW c \in Nat, NEW j \in 1 .. Len(s)
  PROVE  SubSeq(Append(s, c), j + 1, Len(s) + 1) = SubSeq(s, j + 1, Len(s)) \o <<c>>
<1> DEFINE t == Append(s, c)
           n == Len(s)
<1>1. /\ t \in Seq(Nat) /\ Len(t) = n + 1 /\ n \in Nat /\ t[n + 1] = c
      /\ t = s \o <<c>> /\ <<c>> \in Seq(Nat)
  BY AppendProperties, AppendIsConcat
<1> HIDE DEF t
<1>2. SubSeq(t, j + 1, n) \o SubSeq(t, n + 1, n + 1) = SubSeq(t, j + 1, n + 1)
  <2>1. /\ j + 1 \in 1 .. Len(t) + 1 /\ n \in (j + 1) - 1 .. Len(t)
        /\ n + 1 \in n .. Len(t)
    BY <1>1
  <2> QED  BY <1>1, <2>1, ConcatAdjacentSubSeq
<1>3. SubSeq(t, n + 1, n + 1) = <<c>>
  <2> DEFINE k == n + 1
             x == SubSeq(t, k, k)
  <2>1. k \in Int /\ k \in 1 .. Len(t) /\ t[k] = c  BY <1>1
  <2> HIDE DEF k
  <2>2. \A i \in k .. k : t[i] \in Nat  BY <1>1, <2>1
  <2>3. x \in Seq(Nat) /\ Len(x) = k - k + 1 /\ \A i \in 1 .. k - k + 1 : x[i] = t[k + i - 1]
    BY <2>1, <2>2, SubSeqProperties
  <2>4. k - k + 1 = 1 /\ k + 1 - 1 = k  BY <2>1
  <2> HIDE DEF x
  <2>5. x = <<c>>  BY <2>1, <2>3, <2>4
  <2> QED  BY <2>5 DEF x, k
<1>4. SubSeq(t, j + 1, n) = SubSeq(s, j + 1, n)
  <2>1. CASE j = n
    <3>1. n < j + 1 /\ j + 1 \in Int /\ n \in Int  BY <1>1, <2>1
    <3>2. SubSeq(t, j + 1, n) = <<>>  BY <3>1, SubSeqEmpty
    <3>3. SubSeq(s, j + 1, n) = <<>>  BY <3>1, SubSeqEmpty
    <3> QED  BY <3>2, <3>3
  <2>2. CASE j # n
    <3>1. j + 1 \in 1 .. Len(s) /\ n \in 1 .. Len(s)  BY <1>1, <2>2
    <3> QED  BY <1>1, <3>1, SubSeqOfConcat1
  <2> QED  BY <2>1, <2>2
<1> QED  BY <1>2, <1>3, <1>4 DEF t

\* A character of the program is one character more.
LEMMA StrippedAppend ==
  ASSUME NEW s \in Seq(Nat), Once(s), NEW c \in Nat, c # ISR
  PROVE  /\ Stripped(Append(s, c)) = Stripped(s) \o <<c>>
         /\ Once(Append(s, c))
         /\ ISR \in Range(Append(s, c)) <=> ISR \in Range(s)
<1> DEFINE t == Append(s, c)
           n == Len(s)
<1>1. /\ t \in Seq(Nat) /\ Len(t) = n + 1 /\ n \in Nat /\ t[n + 1] = c
      /\ \A j \in 1 .. n : t[j] = s[j]
  BY AppendProperties
<1> HIDE DEF t
<1>2. \A j \in 1 .. n + 1 : t[j] = ISR => j \in 1 .. n /\ s[j] = ISR
  <2>1. \A j \in 1 .. n + 1 : j = n + 1 \/ j \in 1 .. n  BY <1>1
  <2> QED  BY <1>1, <2>1
<1>3. Once(t)
  <2>1. DOMAIN t = 1 .. n + 1 /\ DOMAIN s = 1 .. n  BY <1>1
  <2> QED  BY <1>1, <1>2, <2>1 DEF Once
<1>4. ISR \in Range(t) => ISR \in Range(s)
  BY <1>1, <1>2 DEF Range
<1>5. ISR \in Range(s) => ISR \in Range(t)
  <2>1. \A j \in 1 .. n : j \in 1 .. n + 1  BY <1>1
  <2> QED  BY <1>1, <2>1 DEF Range
<1>6. CASE ISR \notin Range(s)
  <2>1. Stripped(t) = t /\ Stripped(s) = s  BY <1>4, <1>6 DEF Stripped
  <2> QED  BY <1>3, <1>4, <1>5, <2>1, AppendIsConcat DEF t
<1>7. CASE ISR \in Range(s)
  <2>1. PICK j \in 1 .. n : s[j] = ISR  BY <1>7 DEF Range
  <2> DEFINE u == SubSeq(s, 1, j - 1)
             v == SubSeq(s, j + 1, n)
  <2>2. Stripped(s) = u \o v  BY <2>1, StrippedAt
  <2>3. j \in 1 .. Len(t) /\ t[j] = ISR  BY <1>1, <2>1
  <2>4. Stripped(t) = SubSeq(t, 1, j - 1) \o SubSeq(t, j + 1, n + 1)
    BY <1>1, <1>3, <2>3, StrippedAt
  <2>5. u \in Seq(Nat) /\ v \in Seq(Nat) /\ <<c>> \in Seq(Nat)
    OBVIOUS
  <2>6. SubSeq(t, 1, j - 1) = u
    <3>1. /\ SubSeq(t, 1, j - 1) \in Seq(Nat) /\ Len(SubSeq(t, 1, j - 1)) = j - 1
          /\ \A i \in 1 .. j - 1 : SubSeq(t, 1, j - 1)[i] = t[i]
      BY <1>1
    <3>2. Len(u) = j - 1 /\ \A i \in 1 .. j - 1 : u[i] = s[i]  OBVIOUS
    <3>3. \A i \in 1 .. j - 1 : i \in 1 .. n  OBVIOUS
    <3> HIDE DEF u
    <3> QED  BY <1>1, <2>5, <3>1, <3>2, <3>3, SeqEqual
  <2>7. SubSeq(t, j + 1, n + 1) = v \o <<c>>  BY <2>1, TailAppended DEF t
  <2>8. u \o (v \o <<c>>) = (u \o v) \o <<c>>
    <3> DEFINE x == <<c>>
    <3>1. x \in Seq(Nat)  OBVIOUS
    <3> HIDE DEF u, v, x
    <3>2. (u \o v) \o x = u \o (v \o x)  BY <2>5, <3>1, Associative
    <3> QED  BY <3>2 DEF x
  <2>9. Stripped(t) = Stripped(s) \o <<c>>
    <3> HIDE DEF u, v
    <3> QED  BY <2>2, <2>4, <2>6, <2>7, <2>8
  <2> QED  BY <1>3, <1>4, <1>5, <2>9 DEF t
<1> QED  BY <1>6, <1>7

\* The text of the handler is none.
LEMMA StrippedHandler ==
  ASSUME NEW s \in Seq(Nat), ISR \notin Range(s)
  PROVE  /\ Stripped(Append(s, ISR)) = s /\ Stripped(s) = s
         /\ Once(Append(s, ISR))
         /\ ISR \in Range(Append(s, ISR))
<1> DEFINE t == Append(s, ISR)
           n == Len(s)
<1>1. ISR \in Nat  BY DEF ISR
<1>2. /\ t \in Seq(Nat) /\ Len(t) = n + 1 /\ n \in Nat /\ t[n + 1] = ISR
      /\ \A j \in 1 .. n : t[j] = s[j]
  BY <1>1, AppendProperties
<1> HIDE DEF t
<1>3. \A j \in 1 .. n : s[j] # ISR  BY DEF Range
<1>4. \A j \in 1 .. n + 1 : t[j] = ISR => j = n + 1
  <2>1. \A j \in 1 .. n + 1 : j = n + 1 \/ j \in 1 .. n  BY <1>2
  <2> QED  BY <1>2, <1>3, <2>1
<1>5. Once(t)  BY <1>2, <1>4 DEF Once
<1>6. n + 1 \in 1 .. n + 1  BY <1>2
<1>7. ISR \in Range(t)  BY <1>2, <1>6 DEF Range
<1>8. Stripped(t) = SubSeq(t, 1, (n + 1) - 1) \o SubSeq(t, (n + 1) + 1, n + 1)
  BY <1>2, <1>5, <1>6, StrippedAt
<1>9. SubSeq(t, 1, (n + 1) - 1) = s
  <2> DEFINE x == SubSeq(t, 1, n)
  <2>1. /\ x \in Seq(Nat) /\ Len(x) = n
        /\ \A i \in 1 .. n : x[i] = t[i]
    BY <1>2
  <2> HIDE DEF x
  <2>2. x = s  BY <1>2, <2>1, SeqEqual
  <2>3. (n + 1) - 1 = n  BY <1>2
  <2> QED  BY <2>2, <2>3 DEF x
<1>10. SubSeq(t, (n + 1) + 1, n + 1) = <<>>
  BY <1>2, SubSeqEmpty
<1>11. Stripped(t) = s  BY <1>8, <1>9, <1>10, ConcatEmptySeq
<1> QED  BY <1>5, <1>7, <1>11 DEF t, Stripped

\* What has been written so far is a prefix of all there is to write.
LEMMA ConcatPrefix ==
  ASSUME NEW s \in Seq(Nat), NEW t \in Seq(Nat) PROVE IsPrefix(s, s \o t)
<1>1. /\ s \o t \in Seq(Nat) /\ Len(s \o t) = Len(s) + Len(t)
      /\ \A j \in 1 .. Len(s) : (s \o t)[j] = s[j]
  BY ConcatProperties
<1> DEFINE n == Len(s)
           x == SubSeq(s \o t, 1, n)
<1>2. n \in Nat /\ Len(t) \in Nat  OBVIOUS
<1>3. SubSeq(s, 1, n) = s  OBVIOUS
<1>4. x \in Seq(Nat) /\ Len(x) = n /\ \A j \in 1 .. n : x[j] = (s \o t)[j]
  BY <1>1
<1> HIDE DEF x
<1>5. x = s  BY <1>1, <1>2, <1>4, SeqEqual
<1> QED  BY <1>1, <1>2, <1>3, <1>5 DEF IsPrefix, x
---------------------------------------------------------------------------
(* Registers and the transmitter.                                          *)

\* The character to be written is in register d.
Held == {"wait_in", "wait_bit", "wait_jr", "ld_d"}

\* A bank of registers.
Bank == [d : Nat, e : Nat, hl : Nat]
\* Everything written, the characters in the transmitter included.
Shown == sent \o holding

\* What the registers and the console hold.
Typed ==
  /\ a \in Nat /\ z \in BOOLEAN /\ iff \in BOOLEAN
  /\ regs \in Bank /\ other \in Bank
  /\ stack \in Seq(Nat \ {ISR})
  /\ sent \in Seq(Nat) /\ holding \in Seq(Nat)

\* What the registers hold in puts and puthex, and in putdec.
Loaded ==
  /\ Scanning =>
       /\ regs.e < 256
       /\ pc \in {"puts", "puts_cp", "puts_jr"} => regs.hl \in {1, 2, 3}
       /\ pc \in {"puts_cp", "puts_jr"} =>
            a = (IF regs.hl = 1 THEN 80 ELSE IF regs.hl = 2 THEN 83 ELSE 0)
       /\ pc = "puts_jr" => (z <=> a = 0)
       /\ pc = "puts_inc" \/ (pc \in Writing /\ ret = "puts_inc") =>
            regs.hl \in {1, 2}
       /\ pc \in {"puthex_msd", "puthex_lsd"} \/ (pc \in Writing /\ ret = "puthex_lsd") =>
            regs.hl = regs.e
  /\ pc = "putdec" => regs.hl < 65536
  /\ pc \in {"putchar", "out"} => a # ISR
  /\ pc \in Held => regs.d # ISR

\* putchar writes to a transmitter that has room, as the handler writes no
\* more than one character that is not sent yet between test and writing.
Free ==
  /\ pc = "wait_bit" => a \in {0, TXE, EOI} /\ (a = TXE => Len(holding) <= 1)
  /\ pc = "wait_jr" /\ ~z => Len(holding) <= 1
  /\ pc \in {"ld_d", "out"} => Len(holding) <= 1

\* The handler runs once, and its text stays on the console.
Handled ==
  /\ iff \/ pc = "_start" => ISR \notin Range(Shown) /\ other.d # ISR
  /\ other.d = ISR => ISR \in Range(Shown)
  /\ Once(Shown)

\* The handler runs once: it strikes a processor that was not struck before.
Unstruck ==
  /\ Fresh => struck = "none"
  /\ pc = "_start" => ~iff

\* No character the program writes is the text of the handler.
LEMMA Chars ==
  /\ \A v \in Nat : Digit(v) \in Nat
  /\ \A v \in Nat : v < 256 => Digit(v \div 16) # ISR /\ Digit(v % 16) # ISR
  /\ ISR \in Nat /\ 10 # ISR /\ 13 # ISR /\ 80 # ISR /\ 83 # ISR
<1>1. \A v \in Nat : Digit(v) \in Nat /\ (v < 16 => Digit(v) # 256)
  BY SMT DEF Digit
<1>2. \A v \in Nat : v < 256 => v \div 16 \in Nat /\ v \div 16 < 16
  BY SMT
<1>3. \A v \in Nat : v % 16 \in Nat /\ v % 16 < 16  BY SMT
<1>4. ISR = 256  BY DEF ISR
<1> HIDE DEF ISR
<1>5. ASSUME NEW v \in Nat, v < 256
      PROVE  Digit(v \div 16) # ISR /\ Digit(v % 16) # ISR
  <2> DEFINE u == v \div 16
             w == v % 16
  <2>1. u \in Nat /\ u < 16 /\ w \in Nat /\ w < 16  BY <1>2, <1>3, <1>5
  <2> SUFFICES Digit(u) # ISR /\ Digit(w) # ISR  OBVIOUS
  <2> HIDE DEF u, w
  <2> QED  BY <1>1, <1>4, <2>1
<1> QED  BY <1>1, <1>4, <1>5

\* A bank with one register changed is a bank.
LEMMA Updates ==
  ASSUME NEW r \in Bank, NEW v \in Nat
  PROVE  /\ r.d \in Nat /\ r.e \in Nat /\ r.hl \in Nat
         /\ [r EXCEPT !.d = v] \in Bank /\ [r EXCEPT !.e = v] \in Bank
         /\ [r EXCEPT !.hl = v] \in Bank
         /\ \A w \in Nat : [r EXCEPT !.d = w, !.hl = v] \in Bank
  BY DEF Bank

\* What an update does to the three registers.
LEMMA Fields ==
  ASSUME NEW r \in Bank, NEW v
  PROVE  /\ [r EXCEPT !.d = v].d = v /\ [r EXCEPT !.d = v].e = r.e
         /\ [r EXCEPT !.d = v].hl = r.hl
         /\ [r EXCEPT !.e = v].hl = r.hl /\ [r EXCEPT !.e = v].d = r.d
         /\ [r EXCEPT !.e = v].e = v
         /\ [r EXCEPT !.hl = v].hl = v /\ [r EXCEPT !.hl = v].e = r.e
         /\ [r EXCEPT !.hl = v].d = r.d
  BY DEF Bank

\* A step of putdec takes the last digit off the number.
LEMMA OneDigit ==
  ASSUME putdec, regs.hl \in Nat, regs.hl < 65536
  PROVE  /\ regs' = [regs EXCEPT !.hl = regs.hl \div 10]
         /\ stack' = Append(stack, 48 + (regs.hl % 10))
         /\ pc' = IF regs.hl \div 10 = 0 THEN "putdec_3" ELSE "putdec"
<1> DEFINE n == regs.hl
           q == Quotient(n)
           r == Remainder(n, q)
           more == r % 256 >= 10
           next == IF more THEN Add(q, 1) ELSE q
           digit == (48 + r - IF more THEN 10 ELSE 0) % 256
<1>1. next = n \div 10 /\ digit = 48 + (n % 10)  BY DivisionByTen
<1>2. /\ regs' = [regs EXCEPT !.hl = next] /\ stack' = Append(stack, digit)
      /\ pc' = IF next = 0 THEN "putdec_3" ELSE "putdec"
  BY DEF putdec, Goes
<1> HIDE DEF next, digit
<1> QED  BY <1>1, <1>2

\* A code has two digits.
LEMMA CodeBytes == \A c \in Codes : c \in Nat /\ c < 256
  BY MonitorAssumption DEF Codes, EOI

\* Every step keeps the types.
LEMMA TypedStep ==
  ASSUME Typed, Keys, Loaded, [Next]_vars PROVE Typed'
<1> USE DEF Typed, keyboard, uart, cpu
<1>1. CASE _start \/ Polling
  <2>1. kbd \in Nat
    <3>1. Scanning
      BY <1>1 DEF Polling, _start, loop, cp_e, ld_e, jr_z, Keys, Running,
         Counting, Writing
    <3> QED  BY <3>1, MonitorAssumption DEF Scanning
  <2>2. regs' \in Bank
    BY <1>1, Updates DEF Polling, _start, loop, cp_e, ld_e, jr_z
  <2> QED  BY <1>1, <2>1, <2>2 DEF Polling, _start, loop, cp_e, ld_e, jr_z
<1>2. CASE puts \/ puts_cp \/ puts_jr \/ puts_inc
  <2>1. regs' \in Bank
    <3>1. regs.e \in Nat /\ regs.hl \in Nat  BY Updates
    <3>2. regs.hl + 1 \in Nat  BY <3>1
    <3>3. CASE puts
      BY <3>1, <3>3, Updates DEF puts
    <3>4. CASE puts_cp
      BY <3>1, <3>4, Updates DEF puts_cp
    <3>5. CASE puts_jr
      BY <3>1, <3>5, Updates DEF puts_jr
    <3>6. CASE puts_inc
      BY <3>1, <3>2, <3>6, Updates DEF puts_inc
    <3> QED  BY <1>2, <3>3, <3>4, <3>5, <3>6
  <2>2. a' \in Nat
    <3>1. scancode_msg \in Seq(Nat)  BY DEF scancode_msg
    <3>2. \A j \in DOMAIN scancode_msg : scancode_msg[j] \in Nat  BY <3>1
    <3> QED  BY <1>2, <3>2 DEF puts, puts_cp, puts_jr, puts_inc
  <2> QED  BY <1>2, <2>1, <2>2 DEF puts, puts_cp, puts_jr, puts_inc
<1>3. CASE print
  <2>1. a' \in Nat
    <3>1. regs.hl \in Nat  BY Updates
    <3>2. regs.hl \div 16 \in Nat /\ regs.hl % 16 \in Nat  BY <3>1
    <3>3. Digit(regs.hl \div 16) \in Nat /\ Digit(regs.hl % 16) \in Nat
      BY <3>2, Chars
    <3>4. pc \in {"puthex_msd", "puthex_lsd", "crlf_lf", "crlf_cr"}
      BY <1>3 DEF print, Character
    <3>5. a' = Character[pc][1]  BY <1>3 DEF print
    <3> QED  BY <3>3, <3>4, <3>5 DEF Character
  <2> QED  BY <1>3, <2>1 DEF print
<1>4. CASE putchar \/ _putchar_wait_txe \/ wait_bit \/ wait_jr \/ ld_a_d
  <2>1. regs' \in Bank /\ regs.d \in Nat
    BY <1>4, Updates DEF putchar, _putchar_wait_txe, wait_bit, wait_jr, ld_a_d
  <2>2. a' \in Nat
    BY <1>4, <2>1 DEF putchar, _putchar_wait_txe, wait_bit, wait_jr, ld_a_d, TXE
  <2>3. z' \in BOOLEAN
    BY <1>4 DEF putchar, _putchar_wait_txe, wait_bit, wait_jr, ld_a_d
  <2> QED
    BY <1>4, <2>1, <2>2, <2>3
    DEF putchar, _putchar_wait_txe, wait_bit, wait_jr, ld_a_d
<1>5. CASE out
  BY <1>5 DEF out
<1>6. CASE putdec
  <2> DEFINE n == regs.hl
             t == n \div 10
             c == 48 + (n % 10)
  <2>1. n \in Nat /\ n < 65536
    <3>1. pc = "putdec"  BY <1>6 DEF putdec
    <3>2. n \in Nat  BY Updates
    <3>3. n < 65536  BY <3>1 DEF Loaded
    <3> QED  BY <3>2, <3>3
  <2>2. regs' = [regs EXCEPT !.hl = t] /\ stack' = Append(stack, c)
    BY <1>6, <2>1, OneDigit
  <2>3. t \in Nat /\ c \in Nat \ {ISR}  BY <2>1 DEF ISR
  <2> HIDE DEF t, c
  <2>4. regs' \in Bank /\ stack' \in Seq(Nat \ {ISR})
    BY <2>2, <2>3, Updates, AppendProperties
  <2> QED  BY <1>6, <2>4 DEF putdec
<1>7. CASE _putdec_3
  <2>1. stack # <<>> => Last(stack) \in Nat /\ Front(stack) \in Seq(Nat \ {ISR})
    BY DEF Last, Front
  <2> QED  BY <1>7, <2>1 DEF _putdec_3
<1>8. CASE isr0_handler
  <2>1. other' \in Bank  BY <1>8, Chars, Updates DEF isr0_handler
  <2>2. sent \o holding \in Seq(Nat) /\ <<ISR>> \in Seq(Nat) /\ EOI \in Nat
    BY Chars, ConcatProperties DEF EOI
  <2> QED  BY <1>8, <2>1, <2>2 DEF isr0_handler
<1>9. CASE transmit
  BY <1>9, ConcatProperties DEF transmit
<1>10. CASE press \/ UNCHANGED vars
  BY <1>10 DEF press, vars
<1> QED  BY <1>1, <1>2, <1>3, <1>4, <1>5, <1>6, <1>7, <1>8, <1>9, <1>10
         DEF Next, Program, Printing

\* The program stays the one it is.
LEMMA SameProgram ==
  ASSUME Keys, [Next]_vars PROVE Scanning' => Scanning
<1> SUFFICES ASSUME ~Scanning PROVE ~Scanning'  OBVIOUS
<1>1. Counting  BY DEF Keys, Running
<1>2. asked' = asked
  BY <1>1 DEF Next, Program, Polling, Printing, _start, loop, cp_e, ld_e, jr_z,
     puts, puts_cp, puts_jr, puts_inc, print, putchar, _putchar_wait_txe,
     wait_bit, wait_jr, ld_a_d, out, putdec, _putdec_3, isr0_handler, transmit,
     press, vars, Counting, Writing
<1>3. asked \notin Seq(Scan)
  <2>1. PICK n \in Numbers : asked = <<[kind |-> "number", v |-> n]>>
    BY <1>1 DEF Counting
  <2> QED  BY <2>1, NumberIsNoScan
<1> QED  BY <1>2, <1>3 DEF Scanning

\* What puts finds at each place of the message.
LEMMA MessageAt ==
  ASSUME NEW k \in {1, 2, 3}
  PROVE  (IF k \in DOMAIN scancode_msg THEN scancode_msg[k] ELSE 0)
           = (IF k = 1 THEN 80 ELSE IF k = 2 THEN 83 ELSE 0)
  BY DEF scancode_msg

\* Every step keeps what the registers hold.
LEMMA LoadedStep ==
  ASSUME Harmless', Typed, Keys, Loaded, [Next]_vars
  PROVE  Loaded'
<1> DEFINE e == regs.e
<1>1. Scanning' => Scanning  BY SameProgram
<1>2. regs.d \in Nat /\ regs.e \in Nat /\ regs.hl \in Nat /\ regs \in Bank
  BY Updates DEF Typed
<1> USE DEF Goes, uart, keyboard
<1>3. CASE _start \/ loop \/ cp_e
  BY <1>1, <1>3 DEF _start, loop, cp_e, Loaded, Held, Writing
<1>4. CASE ld_e
  <2>1. /\ pc = "ld" /\ pc' = "jr" /\ regs' = [regs EXCEPT !.e = a]
    BY <1>4 DEF ld_e
  <2>2. Scanning' => regs'.e < 256
    <3>1. Scanning => a \in Codes  BY <2>1 DEF Scanning
    <3>2. regs'.e = a  BY <1>2, <2>1, Fields
    <3> QED  BY <1>1, <3>1, <3>2, CodeBytes
  <2> QED  BY <1>1, <2>1, <2>2 DEF Loaded, Held, Writing
<1>5. CASE jr_z
  <2>1. /\ pc = "jr" /\ pc' \in {"loop", "puts"}
        /\ pc' = "puts" => regs' = [regs EXCEPT !.hl = 1]
        /\ pc' = "loop" => regs' = regs
    BY <1>5 DEF jr_z
  <2>2. regs'.e = regs.e /\ (pc' = "puts" => regs'.hl = 1)
    <3>1. [regs EXCEPT !.hl = 1].hl = 1 /\ [regs EXCEPT !.hl = 1].e = regs.e
      BY <1>2, Fields
    <3> QED  BY <2>1, <3>1
  <2> QED  BY <1>1, <2>1, <2>2 DEF Loaded, Held, Writing
<1>6. CASE puts
  <2>1. /\ pc = "puts" /\ pc' = "puts_cp" /\ regs' = regs
        /\ a' = IF regs.hl \in DOMAIN scancode_msg THEN scancode_msg[regs.hl] ELSE 0
    BY <1>6 DEF puts
  <2>2. Scanning => regs.hl \in {1, 2, 3}  BY <2>1 DEF Loaded
  <2>3. Scanning => a' = (IF regs.hl = 1 THEN 80 ELSE IF regs.hl = 2 THEN 83 ELSE 0)
    BY <2>1, <2>2, MessageAt
  <2> QED  BY <1>1, <2>1, <2>2, <2>3 DEF Loaded, Held, Writing
<1>7. CASE puts_cp
  <2>1. /\ pc = "puts_cp" /\ pc' = "puts_jr" /\ regs' = regs /\ a' = a
        /\ z' <=> a' = 0
    BY <1>7 DEF puts_cp
  <2> QED  BY <1>1, <2>1 DEF Loaded, Held, Writing
<1>8. CASE puts_jr
  <2>1. /\ pc = "puts_jr" /\ a' = a
        /\ z => pc' = "puthex_msd" /\ regs' = [regs EXCEPT !.hl = regs.e]
        /\ ~z => pc' = "putchar" /\ ret' = "puts_inc" /\ regs' = regs
    BY <1>8 DEF puts_jr
  <2>4. regs'.e = regs.e /\ (z => regs'.hl = regs.e)
    <3>1. /\ [regs EXCEPT !.hl = regs.e].hl = regs.e
          /\ [regs EXCEPT !.hl = regs.e].e = regs.e
      BY <1>2, Fields
    <3> QED  BY <2>1, <3>1
  <2>2. Scanning /\ (z <=> a = 0) /\ regs.hl \in {1, 2, 3}
        /\ a = (IF regs.hl = 1 THEN 80 ELSE IF regs.hl = 2 THEN 83 ELSE 0)
    BY <2>1 DEF Loaded, Keys, Running, Counting, Writing
  <2>3. ~z => regs.hl \in {1, 2} /\ a # ISR  BY <2>2 DEF ISR
  <2> QED  BY <1>1, <2>1, <2>2, <2>3, <2>4 DEF Loaded, Held, Writing
<1>9. CASE puts_inc
  <2>1. /\ pc = "puts_inc" /\ pc' = "puts" /\ regs'.e = regs.e
        /\ regs'.hl = regs.hl + 1
    BY <1>2, <1>9, Fields DEF puts_inc
  <2>2. Scanning => regs.hl \in {1, 2}  BY <2>1 DEF Loaded
  <2>3. Scanning => regs'.hl \in {1, 2, 3}  BY <2>1, <2>2
  <2> QED  BY <1>1, <2>1, <2>3 DEF Loaded, Held, Writing
<1>10. CASE print
  <2>1. /\ pc \in Digits /\ pc' = "putchar" /\ regs' = regs
        /\ ret' = Character[pc][2] /\ a' = Character[pc][1]
    BY <1>10 DEF print, Digits, Character
  <2>2. Scanning  BY <2>1 DEF Digits, Keys, Running, Counting, Writing
  <2>3. /\ ret' # "puts_inc" /\ (ret' = "puthex_lsd" => pc = "puthex_msd")
    BY <2>1 DEF Digits, Character
  <2>4. a' # ISR
    <3>1. pc \in {"puthex_msd", "puthex_lsd"} => regs.hl = regs.e /\ regs.e < 256
      BY <2>2 DEF Loaded
    <3>2. pc \in {"puthex_msd", "puthex_lsd"} =>
            Digit(regs.hl \div 16) # ISR /\ Digit(regs.hl % 16) # ISR
      BY <1>2, <3>1, Chars
    <3> QED  BY <2>1, <3>2, Chars DEF Digits, Character
  <2> QED  BY <2>1, <2>2, <2>3, <2>4 DEF Loaded, Held, Writing
<1>11. CASE putchar
  <2>1. /\ pc = "putchar" /\ pc' = "wait_in" /\ regs'.d = a /\ regs'.e = regs.e
        /\ regs'.hl = regs.hl /\ ret' = ret
    BY <1>2, <1>11, Fields DEF putchar
  <2> QED  BY <1>1, <2>1 DEF Loaded, Held, Writing
<1>12. CASE _putchar_wait_txe \/ wait_bit \/ wait_jr
  BY <1>1, <1>12 DEF _putchar_wait_txe, wait_bit, wait_jr, Loaded, Held, Writing
<1>13. CASE ld_a_d
  BY <1>1, <1>13 DEF ld_a_d, Loaded, Held, Writing
<1>14. CASE out
  <2>1. /\ pc = "out" /\ pc' = ret /\ UNCHANGED <<regs, ret>>
    BY <1>14 DEF out
  <2>2. ret \in Returns \/ ret = "putdec_3"
    BY <2>1 DEF Keys, Running, Scanning, Counting, Writing
  <2> QED  BY <1>1, <2>1, <2>2 DEF Loaded, Held, Writing, Returns
<1>15. CASE putdec
  <2> DEFINE n == regs.hl
             t == n \div 10
  <2>1. pc = "putdec"  BY <1>15 DEF putdec
  <2>2. n < 65536  BY <2>1 DEF Loaded
  <2>3. regs' = [regs EXCEPT !.hl = t] /\ pc' \in {"putdec", "putdec_3"}
    BY <1>2, <1>15, <2>2, OneDigit
  <2>4. t \in Nat /\ t < 65536  BY <1>2, <2>2
  <2>5. regs'.hl = t  BY <1>2, <2>3, Fields
  <2>6. ~Scanning  BY <2>1 DEF Scanning, Waiting, Message, Digits, Writing
  <2> HIDE DEF t
  <2> QED  BY <1>1, <2>3, <2>4, <2>5, <2>6 DEF Loaded, Held
<1>16. CASE _putdec_3
  <2>1. /\ pc = "putdec_3" /\ pc' \in {"halt", "putchar"}
        /\ pc' = "putchar" => stack # <<>> /\ a' = Last(stack)
    BY <1>16 DEF _putdec_3
  <2>2. stack # <<>> => Last(stack) # ISR  BY DEF Typed, Last
  <2>3. ~Scanning  BY <2>1 DEF Scanning, Waiting, Message, Digits, Writing
  <2> QED  BY <1>1, <2>1, <2>2, <2>3 DEF Loaded, Held
<1>17. CASE isr0_handler
  <2>1. UNCHANGED <<pc, ret, regs>> /\ struck' = pc  BY <1>17 DEF isr0_handler
  <2> QED  BY <1>1, <2>1 DEF Loaded, Held, Writing, Harmless
<1>18. CASE transmit \/ press \/ UNCHANGED vars
  <2>1. UNCHANGED cpu  BY <1>18 DEF transmit, press, vars
  <2> QED  BY <1>1, <2>1 DEF Loaded, cpu
<1> QED
  BY <1>3, <1>4, <1>5, <1>6, <1>7, <1>8, <1>9, <1>10, <1>11, <1>12, <1>13,
     <1>14, <1>15, <1>16, <1>17, <1>18
  DEF Next, Program, Polling, Printing

\* Every step keeps what putchar has found out.
LEMMA FreeStep ==
  ASSUME Harmless', Typed, Free, Keys, [Next]_vars
  PROVE  Free'
<1> USE DEF Goes, uart, keyboard, Free
<1>1. CASE _start \/ Polling
  BY <1>1 DEF Polling, _start, loop, cp_e, ld_e, jr_z
<1>2. CASE puts \/ puts_cp \/ puts_jr \/ puts_inc \/ print \/ putchar
  BY <1>2 DEF puts, puts_cp, puts_jr, puts_inc, print, putchar
<1>3. CASE _putchar_wait_txe
  BY <1>3 DEF _putchar_wait_txe, TXE
<1>4. CASE wait_bit
  <2>1. /\ pc = "wait_bit" /\ pc' = "wait_jr" /\ holding' = holding
        /\ ~z' => (a \div 4) % 2 # 0
    BY <1>4 DEF wait_bit, TXE
  <2>2. a \in {0, 4, 32} /\ (a = 4 => Len(holding) <= 1)
    BY <2>1 DEF TXE, EOI
  <2>3. 0 \div 4 = 0 /\ 32 \div 4 = 8 /\ 0 % 2 = 0 /\ 8 % 2 = 0  OBVIOUS
  <2>4. ~z' => a = 4  BY <2>1, <2>2, <2>3
  <2> QED  BY <2>1, <2>2, <2>4
<1>5. CASE wait_jr \/ ld_a_d
  BY <1>5 DEF wait_jr, ld_a_d
<1>6. CASE out
  <2>1. pc = "out" /\ pc' = ret  BY <1>6 DEF out
  <2>2. ret \in Returns \/ ret = "putdec_3"
    BY <2>1 DEF Keys, Running, Scanning, Counting, Writing
  <2> QED  BY <2>1, <2>2 DEF Returns
<1>7. CASE putdec \/ _putdec_3
  BY <1>7 DEF putdec, _putdec_3
<1>8. CASE isr0_handler
  BY <1>8 DEF isr0_handler, Harmless, TXE, EOI
<1>9. CASE transmit
  <2>1. Len(holding') <= 1 \/ Len(holding') < Len(holding)
    BY <1>9 DEF transmit, Typed
  <2>2. UNCHANGED cpu /\ Len(holding) \in Nat /\ Len(holding') \in Nat
    BY <1>9 DEF transmit, Typed
  <2>3. Len(holding) <= 1 => Len(holding') <= 1
    BY <2>1, <2>2
  <2> QED  BY <2>2, <2>3 DEF cpu
<1>10. CASE press \/ UNCHANGED vars
  BY <1>10 DEF press, vars, cpu
<1> QED
  BY <1>1, <1>2, <1>3, <1>4, <1>5, <1>6, <1>7, <1>8, <1>9, <1>10
  DEF Next, Program, Printing

\* What a step does to the characters written so far.
LEMMA ShownStep ==
  ASSUME Typed, Free, [Next]_vars
  PROVE  /\ Shown \in Seq(Nat)
         /\ out => Shown' = Append(Shown, a)
         /\ isr0_handler => Shown' = Append(Shown, ISR)
         /\ ~out /\ ~isr0_handler => Shown' = Shown
<1> USE DEF Shown, Typed
<1>1. Shown \in Seq(Nat)  BY ConcatProperties
<1>2. ASSUME out PROVE Shown' = Append(Shown, a)
  <2>1. Len(holding) < 2  BY <1>2 DEF out, Free
  <2>2. holding' = Append(holding, a) /\ sent' = sent  BY <1>2, <2>1 DEF out
  <2>3. Shown' = sent \o (holding \o <<a>>)  BY <2>2, AppendIsConcat
  <2>4. <<a>> \in Seq(Nat)  OBVIOUS
  <2>5. Shown' = Shown \o <<a>>  BY <2>3, <2>4, Associative
  <2> QED  BY <1>1, <2>5, AppendIsConcat
<1>3. ASSUME isr0_handler PROVE Shown' = Append(Shown, ISR)
  BY <1>1, <1>3, Chars, AppendIsConcat DEF isr0_handler
<1>4. ASSUME transmit PROVE Shown' = Shown
  <2>1. holding # <<>> /\ sent' = Append(sent, Head(holding)) /\ holding' = Tail(holding)
    BY <1>4 DEF transmit
  <2>2. Head(holding) \in Nat /\ Tail(holding) \in Seq(Nat) /\ <<Head(holding)>> \in Seq(Nat)
    BY <2>1
  <2>3. holding = <<Head(holding)>> \o Tail(holding)  BY <2>1
  <2>4. sent' = sent \o <<Head(holding)>>  BY <2>1, <2>2, AppendIsConcat
  <2> DEFINE x == <<Head(holding)>>
             y == Tail(holding)
  <2>5. (sent \o x) \o y = sent \o (x \o y)
    <3> HIDE DEF x, y
    <3>1. x \in Seq(Nat) /\ y \in Seq(Nat)  BY <2>2 DEF x, y
    <3> QED  BY <3>1, Associative
  <2>6. Shown' = (sent \o x) \o y  BY <2>1, <2>4
  <2>7. Shown = sent \o (x \o y)  BY <2>3
  <2> QED  BY <2>5, <2>6, <2>7
<1>5. ASSUME ~out, ~isr0_handler PROVE Shown' = Shown
  <2>1. transmit \/ UNCHANGED uart
    BY <1>5 DEF Next, Program, Polling, Printing, _start, loop, cp_e, ld_e,
       jr_z, puts, puts_cp, puts_jr, puts_inc, print, putchar,
       _putchar_wait_txe, wait_bit, wait_jr, ld_a_d, putdec, _putdec_3, press,
       vars
  <2> QED  BY <1>4, <2>1 DEF uart
<1> QED  BY <1>1, <1>2, <1>3, <1>5

\* Every step keeps the text of the handler.
LEMMA HandledStep ==
  ASSUME Harmless', Typed, Keys, Loaded, Free, Handled,
         [Next]_vars
  PROVE  Handled'
<1>1. CASE isr0_handler
  <2>1. ISR \notin Range(Shown)  BY <1>1 DEF isr0_handler, Handled
  <2>2. Shown \in Seq(Nat) /\ Shown' = Append(Shown, ISR)
    BY <1>1, ShownStep
  <2>3. ISR \in Range(Shown') /\ Once(Shown')
    BY <2>1, <2>2, StrippedHandler
  <2>4. iff' = FALSE /\ pc' # "_start"
    BY <1>1 DEF isr0_handler, Harmless
  <2> QED  BY <2>3, <2>4 DEF Handled
<1>2. CASE out
  <2>1. Shown \in Seq(Nat) /\ Shown' = Append(Shown, a)
    BY <1>2, ShownStep
  <2>2. a \in Nat /\ a # ISR  BY <1>2 DEF Typed, Loaded, out
  <2>3. Once(Shown') /\ (ISR \in Range(Shown') <=> ISR \in Range(Shown))
    BY <2>1, <2>2, StrippedAppend DEF Handled
  <2>4. iff' = iff /\ pc' # "_start" /\ other' = other
    BY <1>2 DEF out, Goes, Keys, Running, Scanning, Counting, Writing, Returns
  <2> QED  BY <2>3, <2>4 DEF Handled
<1>3. CASE ~isr0_handler /\ ~out
  <2>1. Shown' = Shown  BY <1>3, ShownStep
  <2>2. /\ other' = other
        /\ iff' \/ pc' = "_start" => iff \/ pc = "_start"
    BY <1>3 DEF Next, Program, Polling, Printing, _start, loop, cp_e, ld_e,
       jr_z, puts, puts_cp, puts_jr, puts_inc, print, putchar, cpu, Character,
       _putchar_wait_txe, wait_bit, wait_jr, ld_a_d, putdec, _putdec_3, press,
       transmit, vars, Goes
  <2> QED  BY <2>1, <2>2 DEF Handled
<1> QED  BY <1>1, <1>2, <1>3
---------------------------------------------------------------------------
(* What is still to be written.                                            *)

\* The end of a line, from its last character on.
Cr == Cons(13, <<>>)
\* The end of a line.
Crlf == Cons(10, Cr)
\* The second digit and the end of the line.
Lsd(v) == Cons(Digit(v % 16), Crlf)
\* Both digits and the end of the line.
Msd(v) == Cons(Digit(v \div 16), Lsd(v))
\* The message from the letter k on, the digits of v and the end of the line.
Letters(k, v) ==
  IF k = 1 THEN Cons(80, Cons(83, Msd(v)))
  ELSE IF k = 2 THEN Cons(83, Msd(v)) ELSE Msd(v)

\* The text that is left at the place p, where putchar has returned to it.
Rest(p) ==
  IF p = "puts_inc" THEN Letters(regs.hl + 1, regs.e)
  ELSE IF p = "puthex_lsd" THEN Lsd(regs.hl)
  ELSE IF p = "crlf_lf" THEN Crlf
  ELSE IF p = "crlf_cr" THEN Cr
  ELSE IF p = "putdec_3" THEN Reverse(stack) ELSE <<>>

\* The text that is left now.
Pending ==
  IF pc \in {"puts", "puts_cp", "puts_jr"} THEN Letters(regs.hl, regs.e)
  ELSE IF pc = "puthex_msd" THEN Msd(regs.hl)
  ELSE IF pc \in {"putchar", "out"} THEN Cons(a, Rest(ret))
  ELSE IF pc \in Held THEN Cons(regs.d, Rest(ret))
  ELSE IF pc = "putdec" THEN Decimal(regs.hl) \o Reverse(stack)
  ELSE Rest(pc)

\* Nothing is lost, added or out of order: what the console has and what is
\* left are what was to be printed.
Told == Wanted = Stripped(Shown) \o Pending

\* A character before a text.
LEMMA ConsType ==
  ASSUME NEW c \in Nat, NEW s \in Seq(Nat)
  PROVE  /\ Cons(c, s) \in Seq(Nat) /\ Len(Cons(c, s)) = 1 + Len(s)
         /\ Cons(c, s)[1] = c
         /\ \A j \in 1 .. Len(s) : Cons(c, s)[j + 1] = s[j]
<1>1. <<c>> \in Seq(Nat) /\ Len(<<c>>) = 1 /\ <<c>>[1] = c  OBVIOUS
<1> DEFINE x == <<c>>
<1>2. /\ x \o s \in Seq(Nat) /\ Len(x \o s) = 1 + Len(s)
      /\ \A i \in 1 .. 1 + Len(s) : (x \o s)[i] = IF i <= 1 THEN x[i] ELSE s[i - 1]
  <2> HIDE DEF x
  <2> QED  BY <1>1, ConcatProperties DEF x
<1>3. (x \o s)[1] = c  BY <1>1, <1>2
<1>4. \A j \in 1 .. Len(s) : (x \o s)[j + 1] = s[j]
  <2> TAKE j \in 1 .. Len(s)
  <2>1. j + 1 \in 1 .. 1 + Len(s) /\ ~(j + 1 <= 1) /\ (j + 1) - 1 = j  OBVIOUS
  <2> HIDE DEF x
  <2> QED  BY <1>2, <2>1
<1> QED  BY <1>2, <1>3, <1>4 DEF Cons

\* Two characters.
LEMMA ConsPair ==
  ASSUME NEW c \in Nat, NEW d \in Nat PROVE Cons(c, <<d>>) = <<c, d>>
<1> DEFINE s == <<d>>
           w == Cons(c, s)
<1>1. s \in Seq(Nat) /\ Len(s) = 1 /\ s[1] = d  OBVIOUS
<1> HIDE DEF s
<1>2. 1 \in 1 .. Len(s) /\ 1 + Len(s) = 2  BY <1>1
<1>3. /\ w \in Seq(Nat) /\ Len(w) = 1 + Len(s) /\ w[1] = c
      /\ \A j \in 1 .. Len(s) : w[j + 1] = s[j]
  BY <1>1, ConsType
<1> HIDE DEF w
<1>4. w = <<c, d>>  BY <1>1, <1>2, <1>3
<1> QED  BY <1>4 DEF w, s

\* What is left of a message is a text.
LEMMA LettersType ==
  ASSUME NEW v \in Nat
  PROVE  /\ Cr \in Seq(Nat) /\ Crlf \in Seq(Nat) /\ Lsd(v) \in Seq(Nat)
         /\ \A k : Letters(k, v) \in Seq(Nat)
<1>1. v \div 16 \in Nat /\ v % 16 \in Nat  OBVIOUS
<1>2. Digit(v \div 16) \in Nat /\ Digit(v % 16) \in Nat  BY <1>1, Chars
<1>3. Cr \in Seq(Nat)
  <2>1. 13 \in Nat /\ <<>> \in Seq(Nat)  OBVIOUS
  <2> QED  BY <2>1, ConsType DEF Cr
<1>4. Crlf \in Seq(Nat)  BY <1>3, ConsType DEF Crlf
<1>5. Lsd(v) \in Seq(Nat)  BY <1>2, <1>4, ConsType DEF Lsd
<1>6. Msd(v) \in Seq(Nat)  BY <1>2, <1>5, ConsType DEF Msd
<1>7. Cons(83, Msd(v)) \in Seq(Nat)  BY <1>6, ConsType
<1>8. Cons(80, Cons(83, Msd(v))) \in Seq(Nat)  BY <1>7, ConsType
<1> QED  BY <1>3, <1>4, <1>5, <1>6, <1>7, <1>8 DEF Letters

\* The message and the two digits are what is left when puts begins.
LEMMA LettersText ==
  ASSUME NEW v \in Nat
  PROVE  Letters(1, v) = scancode_msg \o <<Digit(v \div 16), Digit(v % 16), 10, 13>>
<1> DEFINE p == Digit(v \div 16)
           q == Digit(v % 16)
<1>1. p \in Nat /\ q \in Nat
  <2>1. v \div 16 \in Nat /\ v % 16 \in Nat  OBVIOUS
  <2> QED  BY <2>1, Chars
<1> HIDE DEF p, q
<1>2. Cr = <<13>>
  <2>1. <<13>> \in Seq(Nat)  OBVIOUS
  <2> QED  BY <2>1, ConcatEmptySeq DEF Cr, Cons
<1>3. Crlf = <<10, 13>>  BY <1>2, ConsPair DEF Crlf
<1>4. Cons(q, Crlf) = <<q, 10, 13>>
  <2> DEFINE s == <<10, 13>>
  <2>1. s \in Seq(Nat) /\ Len(s) = 2 /\ s[1] = 10 /\ s[2] = 13  OBVIOUS
  <2> HIDE DEF s
  <2>2. /\ Cons(q, s) \in Seq(Nat) /\ Len(Cons(q, s)) = 3 /\ Cons(q, s)[1] = q
        /\ Cons(q, s)[1 + 1] = 10 /\ Cons(q, s)[2 + 1] = 13
    <3>1. 1 \in 1 .. Len(s) /\ 2 \in 1 .. Len(s) /\ 1 + Len(s) = 3  BY <2>1
    <3> QED  BY <1>1, <2>1, <3>1, ConsType
  <2>3. Cons(q, s) = <<q, 10, 13>>  BY <2>2
  <2> QED  BY <1>3, <2>3 DEF s
<1>5. Cons(p, <<q, 10, 13>>) = <<p, q, 10, 13>>
  <2> DEFINE s == <<q, 10, 13>>
  <2>1. s \in Seq(Nat) /\ Len(s) = 3 /\ s[1] = q /\ s[2] = 10 /\ s[3] = 13
    BY <1>1
  <2> HIDE DEF s
  <2>2. /\ Cons(p, s) \in Seq(Nat) /\ Len(Cons(p, s)) = 4 /\ Cons(p, s)[1] = p
        /\ Cons(p, s)[1 + 1] = q /\ Cons(p, s)[2 + 1] = 10 /\ Cons(p, s)[3 + 1] = 13
    <3>1. /\ 1 \in 1 .. Len(s) /\ 2 \in 1 .. Len(s) /\ 3 \in 1 .. Len(s)
          /\ 1 + Len(s) = 4
      BY <2>1
    <3>2. \A j \in 1 .. Len(s) : Cons(p, s)[j + 1] = s[j]
      BY <1>1, <2>1, ConsType
    <3>3. Cons(p, s) \in Seq(Nat) /\ Len(Cons(p, s)) = 4 /\ Cons(p, s)[1] = p
      BY <1>1, <2>1, <3>1, ConsType
    <3> QED  BY <2>1, <3>1, <3>2, <3>3
  <2>3. Cons(p, s) = <<p, q, 10, 13>>  BY <2>2
  <2> QED  BY <2>3 DEF s
<1>6. Cons(80, Cons(83, <<p, q, 10, 13>>)) = <<80, 83>> \o <<p, q, 10, 13>>
  <2> DEFINE s == <<p, q, 10, 13>>
  <2>1. s \in Seq(Nat)  BY <1>1
  <2> HIDE DEF s
  <2>2. <<80>> \o <<83>> = <<80, 83>>  BY ConsPair DEF Cons
  <2>3. (<<80>> \o <<83>>) \o s = <<80>> \o (<<83>> \o s)
    <3>1. <<80>> \in Seq(Nat) /\ <<83>> \in Seq(Nat)  OBVIOUS
    <3> QED  BY <2>1, <3>1, Associative
  <2> QED  BY <2>2, <2>3 DEF Cons, s
<1> QED  BY <1>4, <1>5, <1>6 DEF Letters, Msd, Lsd, scancode_msg, p, q

\* The digits on the stack are written from the last to the first.
LEMMA ReverseAppend ==
  ASSUME NEW s \in Seq(Nat), NEW c \in Nat
  PROVE  Reverse(Append(s, c)) = Cons(c, Reverse(s))
<1> DEFINE t == Append(s, c)
           n == Len(s)
           x == Reverse(t)
           y == Reverse(s)
<1>1. /\ t \in Seq(Nat) /\ Len(t) = n + 1 /\ n \in Nat /\ t[n + 1] = c
      /\ \A j \in 1 .. n : t[j] = s[j]
  BY AppendProperties
<1>2. x \in Seq(Nat) /\ Len(x) = n + 1 /\ \A j \in 1 .. n + 1 : x[j] = t[(n + 1) - j + 1]
  BY <1>1 DEF Reverse
<1>3. y \in Seq(Nat) /\ Len(y) = n /\ \A j \in 1 .. n : y[j] = s[n - j + 1]
  BY <1>1 DEF Reverse
<1> HIDE DEF t, x, y
<1> DEFINE w == Cons(c, y)
<1>4. /\ w \in Seq(Nat) /\ Len(w) = n + 1 /\ w[1] = c
      /\ \A j \in 1 .. n : w[j + 1] = y[j]
  <2>1. /\ w \in Seq(Nat) /\ Len(w) = 1 + Len(y) /\ w[1] = c
        /\ \A j \in 1 .. Len(y) : w[j + 1] = y[j]
    BY <1>3, ConsType
  <2>2. Len(y) = n /\ n \in Nat  BY <1>1, <1>3
  <2> HIDE DEF w, n
  <2> QED  BY <2>1, <2>2
<1> HIDE DEF w
<1>5. \A j \in 1 .. n + 1 : x[j] = w[j]
  <2> TAKE j \in 1 .. n + 1
  <2>1. CASE j = 1
    <3>1. (n + 1) - 1 + 1 = n + 1 /\ 1 \in 1 .. n + 1  BY <1>1
    <3>2. x[1] = t[n + 1]  BY <1>2, <3>1
    <3> QED  BY <1>1, <1>4, <2>1, <3>2
  <2>2. CASE j # 1
    <3>1. j - 1 \in 1 .. n /\ (j - 1) + 1 = j  BY <1>1, <2>2
    <3>2. w[j] = s[n - (j - 1) + 1]  BY <1>3, <1>4, <3>1
    <3>3. n - (j - 1) + 1 = (n + 1) - j + 1 /\ (n + 1) - j + 1 \in 1 .. n
      BY <1>1, <2>2
    <3> QED  BY <1>1, <1>2, <3>2, <3>3
  <2> QED  BY <2>1, <2>2
<1>6. x = w  BY <1>2, <1>4, <1>5, SeqEqual
<1> QED  BY <1>6 DEF w, t, x, y

\* The digit written next is the one pushed last.
LEMMA ReverseLast ==
  ASSUME NEW s \in Seq(Nat), s # <<>>
  PROVE  /\ Reverse(s) = Cons(Last(s), Reverse(Front(s)))
         /\ Last(s) \in Nat /\ Front(s) \in Seq(Nat)
<1>1. Last(s) \in Nat /\ Front(s) \in Seq(Nat)  BY DEF Last, Front
<1>2. s = Append(Front(s), Last(s))
  BY DEF Last, Front
<1> QED  BY <1>1, <1>2, ReverseAppend

\* Nothing is left on an empty stack.
LEMMA ReverseEmpty == Reverse(<<>>) = <<>>
  BY DEF Reverse
----------------------------------------------------------------------------
(* The steps of the program on what is still to be written.               *)

\* The text of a scancode is the message, both digits and the end of the line.
LEMMA TextType ==
  ASSUME NEW r \in Scan PROVE Text(r) = Letters(1, r.v) /\ Text(r) \in Seq(Nat)
<1>1. r.kind = "scancode" /\ r.v \in Codes  BY DEF Scan
<1>2. r.v \in Nat
  BY <1>1, CodeBytes
<1>3. Text(r) = Letters(1, r.v)  BY <1>1, <1>2, LettersText DEF Text
<1> QED  BY <1>2, <1>3, LettersType

\* A scancode that is to be reported comes behind all the others.
LEMMA WantedAppend ==
  ASSUME NEW r \in Scan, asked \in Seq(Scan), asked' = Append(asked, r)
  PROVE  Wanted' = Wanted \o Text(r)
<1> DEFINE n == Len(asked)
           s == [j \in DOMAIN asked |-> Text(asked[j])]
           t == [j \in DOMAIN asked' |-> Text(asked'[j])]
           x == Text(r)
<1>1. /\ asked' \in Seq(Scan) /\ Len(asked') = n + 1 /\ n \in Nat
      /\ asked'[n + 1] = r /\ \A j \in 1 .. n : asked'[j] = asked[j]
      /\ DOMAIN asked' = 1 .. n + 1 /\ DOMAIN asked = 1 .. n
  BY AppendProperties
<1>2. s \in Seq(Seq(Nat)) /\ Len(s) = n /\ \A j \in 1 .. n : s[j] = Text(asked[j])
  <2>1. \A j \in 1 .. n : asked[j] \in Scan  BY <1>1
  <2>2. \A j \in 1 .. n : Text(asked[j]) \in Seq(Nat)  BY <2>1, TextType
  <2>3. s = [j \in 1 .. n |-> Text(asked[j])]  BY <1>1
  <2> HIDE DEF s
  <2> QED  BY <1>1, <2>2, <2>3
<1>3. /\ DOMAIN t = 1 .. n + 1 /\ t[n + 1] = x
      /\ \A j \in 1 .. n : t[j] = s[j]
  <2>1. \A j \in 1 .. n : j \in 1 .. n + 1  BY <1>1
  <2>2. n + 1 \in 1 .. n + 1  BY <1>1
  <2> QED  BY <1>1, <2>1, <2>2
<1>4. x \in Seq(Nat)  BY TextType
<1>5. \A j \in 1 .. n + 1 : t[j] \in Seq(Nat)
  <2>1. \A j \in 1 .. n : s[j] \in Seq(Nat)  BY <1>1, <1>2
  <2>2. \A j \in 1 .. n + 1 : j = n + 1 \/ j \in 1 .. n  BY <1>1
  <2> HIDE DEF s, t, x
  <2> QED  BY <1>3, <1>4, <2>1, <2>2
<1>6. t \in Seq(Seq(Nat)) /\ Len(t) = n + 1
  <2>1. t = [j \in 1 .. n + 1 |-> t[j]]  BY <1>1
  <2> HIDE DEF t
  <2> QED  BY <1>1, <1>3, <1>5, <2>1
<1>7. Wanted = FlattenSeq(s) /\ Wanted' = FlattenSeq(t)  BY DEF Wanted, Text
<1> HIDE DEF s, t, x
<1>8. /\ Append(s, x) \in Seq(Seq(Nat)) /\ Len(Append(s, x)) = n + 1
      /\ Append(s, x)[n + 1] = x /\ \A j \in 1 .. n : Append(s, x)[j] = s[j]
  BY <1>2, <1>4, AppendProperties
<1>9. t = Append(s, x)
  <2>1. \A j \in 1 .. n + 1 : j = n + 1 \/ j \in 1 .. n  BY <1>1
  <2>2. \A j \in 1 .. n + 1 : t[j] = Append(s, x)[j]  BY <1>3, <1>8, <2>1
  <2> QED  BY <1>6, <1>8, <2>2, SeqEqual
<1>10. FlattenSeq(Append(s, x)) = FlattenSeq(s) \o x
  BY <1>2, <1>4, FlattenAppend
<1> QED  BY <1>7, <1>9, <1>10 DEF x

\* What is left at a place is a text.
LEMMA RestType ==
  ASSUME Typed PROVE \A p : Rest(p) \in Seq(Nat)
<1>1. regs.e \in Nat /\ regs.hl \in Nat  BY Updates DEF Typed
<1>2. Reverse(stack) \in Seq(Nat)  BY DEF Typed, Reverse
<1>3. Letters(regs.hl + 1, regs.e) \in Seq(Nat)  BY <1>1, LettersType
<1>4. Lsd(regs.hl) \in Seq(Nat) /\ Crlf \in Seq(Nat) /\ Cr \in Seq(Nat)
  BY <1>1, LettersType
<1>5. <<>> \in Seq(Nat)  OBVIOUS
<1> QED  BY <1>2, <1>3, <1>4, <1>5 DEF Rest

\* A character that has been written is one less to write.
LEMMA PendingOut ==
  ASSUME Typed, Keys, out
  PROVE  Pending = <<a>> \o Rest(ret) /\ Pending' = Rest(ret)
<1>1. /\ pc = "out" /\ pc' = ret /\ UNCHANGED <<regs, stack>>
  BY DEF out, Goes
<1>2. ret \in Returns \/ ret = "putdec_3"
  BY <1>1 DEF Keys, Running, Scanning, Counting, Writing
<1>3. Pending = <<a>> \o Rest(ret)  BY <1>1 DEF Pending, Cons
<1>4. Pending' = Rest(ret)
  BY <1>1, <1>2 DEF Pending, Rest, Returns, Held
<1> QED  BY <1>3, <1>4

\* puts writes nothing itself: what is left stays the same.
LEMMA PendingMessage ==
  ASSUME Typed, Keys, Loaded, puts \/ puts_cp \/ puts_jr \/ puts_inc
  PROVE  Pending' = Pending
<1> USE DEF Goes, Held
<1>1. regs \in Bank  BY DEF Typed
<1>2. CASE puts \/ puts_cp
  BY <1>2 DEF puts, puts_cp, Pending
<1>3. CASE puts_jr
  <2>1. /\ pc = "puts_jr"
        /\ z => pc' = "puthex_msd" /\ regs' = [regs EXCEPT !.hl = regs.e]
        /\ ~z => pc' = "putchar" /\ ret' = "puts_inc" /\ UNCHANGED <<regs, a>>
    BY <1>3 DEF puts_jr
  <2>2. (z <=> a = 0) /\ regs.hl \in {1, 2, 3}
        /\ a = (IF regs.hl = 1 THEN 80 ELSE IF regs.hl = 2 THEN 83 ELSE 0)
    BY <2>1 DEF Loaded, Keys, Running, Counting, Writing
  <2>3. Pending = Letters(regs.hl, regs.e)  BY <2>1 DEF Pending
  <2>4. CASE z
    <3>1. [regs EXCEPT !.hl = regs.e].hl = regs.e  BY <1>1, Fields
    <3>2. Pending' = Msd(regs.e)  BY <2>1, <2>4, <3>1 DEF Pending
    <3>3. regs.hl = 3  BY <2>2, <2>4
    <3> QED  BY <2>3, <3>2, <3>3 DEF Letters
  <2>5. CASE ~z
    <3>1. Pending' = Cons(a, Letters(regs.hl + 1, regs.e))
      BY <2>1, <2>5 DEF Pending, Rest
    <3>2. \/ regs.hl = 1 /\ a = 80 /\ regs.hl + 1 = 2
          \/ regs.hl = 2 /\ a = 83 /\ regs.hl + 1 = 3
      BY <2>2, <2>5
    <3> QED  BY <2>3, <3>1, <3>2 DEF Letters
  <2> QED  BY <2>4, <2>5
<1>4. CASE puts_inc
  <2>1. pc = "puts_inc" /\ pc' = "puts" /\ regs' = [regs EXCEPT !.hl = regs.hl + 1]
    BY <1>4 DEF puts_inc
  <2>2. /\ [regs EXCEPT !.hl = regs.hl + 1].hl = regs.hl + 1
        /\ [regs EXCEPT !.hl = regs.hl + 1].e = regs.e
    BY <1>1, Fields
  <2> QED  BY <2>1, <2>2 DEF Pending, Rest
<1> QED  BY <1>2, <1>3, <1>4

\* Nor does a step of puthex, crlf or putchar before the writing.
LEMMA PendingCharacter ==
  ASSUME Typed, Keys, Loaded,
         print \/ putchar \/ _putchar_wait_txe \/ wait_bit \/ wait_jr \/ ld_a_d
  PROVE  Pending' = Pending
<1> USE DEF Goes, Held
<1>1. CASE print
  <2>1. /\ pc \in Digits /\ pc' = "putchar" /\ regs' = regs
        /\ a' = Character[pc][1] /\ ret' = Character[pc][2]
    BY <1>1 DEF print, Digits, Character
  <2>2. Pending' = Cons(a', (Rest(ret))')  BY <2>1 DEF Pending
  <2>3. CASE pc = "puthex_msd"
    BY <2>1, <2>2, <2>3 DEF Character, Pending, Rest, Msd
  <2>4. CASE pc = "puthex_lsd"
    BY <2>1, <2>2, <2>4 DEF Character, Pending, Rest, Lsd
  <2>5. CASE pc = "crlf_lf"
    BY <2>1, <2>2, <2>5 DEF Character, Pending, Rest, Crlf
  <2>6. CASE pc = "crlf_cr"
    BY <2>1, <2>2, <2>6 DEF Character, Pending, Rest, Cr
  <2> QED  BY <2>1, <2>3, <2>4, <2>5, <2>6 DEF Digits
<1>2. CASE putchar
  <2>1. /\ pc = "putchar" /\ pc' = "wait_in" /\ regs' = [regs EXCEPT !.d = a]
        /\ UNCHANGED <<ret, stack>>
    BY <1>2 DEF putchar
  <2>2. regs'.d = a /\ regs'.e = regs.e /\ regs'.hl = regs.hl
    <3>1. regs \in Bank  BY DEF Typed
    <3> QED  BY <2>1, <3>1, Fields
  <2> QED  BY <2>1, <2>2 DEF Pending, Rest
<1>3. CASE _putchar_wait_txe \/ wait_bit \/ wait_jr
  BY <1>3 DEF _putchar_wait_txe, wait_bit, wait_jr, Pending, Rest
<1>4. CASE ld_a_d
  BY <1>4 DEF ld_a_d, Pending, Rest
<1> QED  BY <1>1, <1>2, <1>3, <1>4

\* Nor does putdec: a digit pushed is one taken off the number.
LEMMA PendingDecimal ==
  ASSUME Typed, Loaded, putdec \/ _putdec_3 PROVE Pending' = Pending
<1> USE DEF Goes, Held
<1>1. regs.hl \in Nat /\ regs \in Bank /\ stack \in Seq(Nat)
  <2>1. regs \in Bank /\ stack \in Seq(Nat)  BY DEF Typed
  <2> QED  BY <2>1, Updates
<1>2. CASE putdec
  <2> DEFINE n == regs.hl
             t == n \div 10
             c == 48 + (n % 10)
             r == Reverse(stack)
  <2>1. pc = "putdec" /\ n < 65536  BY <1>2 DEF putdec, Loaded
  <2>2. /\ regs' = [regs EXCEPT !.hl = t] /\ stack' = Append(stack, c)
        /\ pc' = IF t = 0 THEN "putdec_3" ELSE "putdec"
    BY <1>1, <1>2, <2>1, OneDigit
  <2>3. t \in Nat /\ c \in Nat /\ t < 65536 /\ (t = 0 <=> n < 10)  BY <1>1, <2>1
  <2>4. /\ n < 10 => Decimal(n) = <<c>>
        /\ n >= 10 => Decimal(n) = Decimal(t) \o <<c>>
    <3>1. n \in Nat  BY <1>1
    <3> HIDE DEF n
    <3>2. n < 10 => Decimal(n) = <<48 + (n % 10)>>
      BY <3>1, DecimalOne
    <3>3. n >= 10 => Decimal(n) = Decimal(n \div 10) \o <<48 + (n % 10)>>
      <4>1. n >= 10 => Long(n)  BY <2>1 DEF Long
      <4> QED  BY <3>1, <4>1, DecimalMore
    <3> QED  BY <3>2, <3>3
  <2>5. r \in Seq(Nat)  BY <1>1 DEF Reverse
  <2> HIDE DEF t, c, r
  <2>6. Decimal(t) \in Seq(Nat)
    <3>1. t \in Nat /\ t < 65536  BY <2>3
    <3> QED  BY <3>1, DecimalType
  <2>7. Reverse(stack') = <<c>> \o r
    <3>1. Reverse(Append(stack, c)) = Cons(c, Reverse(stack))
      BY <1>1, <2>3, ReverseAppend
    <3> QED  BY <2>2, <3>1 DEF r, Cons
  <2>8. Pending = Decimal(n) \o r  BY <2>1 DEF Pending, r
  <2>9. CASE t = 0
    <3>1. Pending' = Reverse(stack')  BY <2>2, <2>9 DEF Pending, Rest
    <3>2. Decimal(n) = <<c>>  BY <2>3, <2>4, <2>9
    <3> QED  BY <2>7, <2>8, <3>1, <3>2
  <2>10. CASE t # 0
    <3>1. regs'.hl = t  BY <1>1, <2>2, Fields
    <3>2. Pending' = Decimal(t) \o (<<c>> \o r)
      BY <2>2, <2>7, <2>10, <3>1 DEF Pending
    <3>3. <<c>> \in Seq(Nat)  BY <2>3
    <3>4. Decimal(t) \o (<<c>> \o r) = (Decimal(t) \o <<c>>) \o r
      BY <2>5, <2>6, <3>3, Associative
    <3>5. n >= 10  BY <1>1, <2>3, <2>10
    <3> QED  BY <2>4, <2>8, <3>2, <3>4, <3>5
  <2> QED  BY <2>9, <2>10
<1>3. CASE _putdec_3
  <2>1. /\ pc = "putdec_3" /\ Pending = Reverse(stack)
        /\ stack = <<>> => pc' = "halt"
        /\ stack # <<>> => /\ pc' = "putchar" /\ ret' = "putdec_3"
                           /\ a' = Last(stack) /\ stack' = Front(stack)
    BY <1>3 DEF _putdec_3, Pending, Rest
  <2>2. CASE stack = <<>>
    BY <2>1, <2>2, ReverseEmpty DEF Pending, Rest
  <2>3. CASE stack # <<>>
    <3>1. Pending' = Cons(Last(stack), Reverse(Front(stack)))
      BY <2>1, <2>3 DEF Pending, Rest
    <3> QED  BY <1>1, <2>1, <2>3, <3>1, ReverseLast
  <2> QED  BY <2>2, <2>3
<1> QED  BY <1>2, <1>3

\* Every step keeps the text.
LEMMA ToldStep ==
  ASSUME Harmless', Typed, Keys, Loaded, Free, Handled, Told,
         [Next]_vars
  PROVE  Told'
<1>1. /\ Shown \in Seq(Nat) /\ Once(Shown) /\ Stripped(Shown) \in Seq(Nat)
  BY ShownStep, StrippedType DEF Handled
<1>2. CASE out
  <2> DEFINE x == Stripped(Shown)
             y == Rest(ret)
  <2>1. Pending = <<a>> \o y /\ Pending' = y  BY <1>2, PendingOut
  <2>2. Shown' = Append(Shown, a) /\ a \in Nat /\ a # ISR /\ Wanted' = Wanted
    BY <1>2, ShownStep DEF Typed, Loaded, out, Wanted
  <2>3. (Stripped(Shown))' = x \o <<a>>
    <3>1. (Stripped(Shown))' = Stripped(Shown')  BY DEF Stripped
    <3> QED  BY <1>1, <2>2, <3>1, StrippedAppend
  <2>4. y \in Seq(Nat) /\ <<a>> \in Seq(Nat)  BY <2>2, RestType
  <2> HIDE DEF x, y
  <2>5. (x \o <<a>>) \o y = x \o (<<a>> \o y)
    BY <1>1, <2>4, Associative DEF x
  <2> QED  BY <2>1, <2>2, <2>3, <2>5 DEF Told, x
<1>3. CASE isr0_handler
  <2>1. ISR \notin Range(Shown) /\ struck' = pc
    BY <1>3 DEF isr0_handler, Handled
  <2>2. Stripped(Shown)' = Stripped(Shown)
    <3>1. Shown' = Append(Shown, ISR)  BY <1>3, ShownStep
    <3>2. (Stripped(Shown))' = Stripped(Shown')  BY DEF Stripped
    <3> QED  BY <1>1, <2>1, <3>1, <3>2, StrippedHandler
  <2>3. UNCHANGED <<pc, ret, regs, stack, asked>>  BY <1>3 DEF isr0_handler
  <2>4. Wanted' = Wanted  BY <2>3 DEF Wanted
  <2>5. Pending' = Pending  BY <2>1, <2>3 DEF Pending, Rest, Harmless
  <2> QED  BY <2>2, <2>4, <2>5 DEF Told
<1>4. CASE ~out /\ ~isr0_handler
  <2>1. (Stripped(Shown))' = Stripped(Shown)
    <3>1. Shown' = Shown  BY <1>4, ShownStep
    <3>2. (Stripped(Shown))' = Stripped(Shown')  BY DEF Stripped
    <3> QED  BY <3>1, <3>2
  <2>2. CASE jr_z /\ ~z
    <3> DEFINE r == [kind |-> "scancode", v |-> regs.e]
    <3>1. /\ pc = "jr" /\ pc' = "puts" /\ regs' = [regs EXCEPT !.hl = 1]
          /\ asked' = Append(asked, r)
      BY <2>2 DEF jr_z, Goes
    <3>2. asked \in Seq(Scan) /\ r \in Scan
      BY <3>1 DEF Keys, Running, Scanning, Counting, Writing, Scan
    <3>3. Wanted' = Wanted \o Text(r)  BY <3>1, <3>2, WantedAppend
    <3>4. Pending = <<>>  BY <3>1 DEF Pending, Rest, Held
    <3>5. regs'.hl = 1 /\ regs'.e = regs.e
      <4>1. regs \in Bank  BY DEF Typed
      <4> QED  BY <3>1, <4>1, Fields
    <3>6. Pending' = Letters(1, regs.e)  BY <3>1, <3>5 DEF Pending
    <3>7. Text(r) = Letters(1, regs.e)  BY <3>2, TextType
    <3>8. Wanted = Stripped(Shown)  BY <1>1, <3>4, ConcatEmptySeq DEF Told
    <3> QED  BY <2>1, <3>3, <3>6, <3>7, <3>8 DEF Told
  <2>3. CASE ~(jr_z /\ ~z)
    <3>1. asked' = asked
      BY <2>3 DEF Next, Program, Polling, Printing, _start, loop, cp_e, ld_e,
         jr_z, puts, puts_cp, puts_jr, puts_inc, print, putchar,
         _putchar_wait_txe, wait_bit, wait_jr, ld_a_d, out, putdec, _putdec_3,
         isr0_handler, transmit, press, vars
    <3>2. Wanted' = Wanted  BY <3>1 DEF Wanted
    <3>3. Pending' = Pending
      <4>1. CASE _start \/ Polling
        BY <2>3, <4>1 DEF Polling, _start, loop, cp_e, ld_e, jr_z, Goes,
           Pending, Rest, Held
      <4>2. CASE transmit \/ press \/ UNCHANGED vars
        <5>1. UNCHANGED cpu  BY <4>2 DEF transmit, press, vars
        <5> QED  BY <5>1 DEF cpu, Pending, Rest
      <4> QED
        BY <1>4, <4>1, <4>2, PendingMessage, PendingCharacter, PendingDecimal
        DEF Next, Program, Printing
    <3> QED  BY <2>1, <3>2, <3>3 DEF Told
  <2> QED  BY <2>2, <2>3
<1> QED  BY <1>2, <1>3, <1>4
----------------------------------------------------------------------------
(* The invariant and the theorem.                                          *)

\* At the start everything is still to be written.
LEMMA ConsoleInit == ASSUME Init PROVE Typed /\ Loaded /\ Free /\ Handled /\ Told
<1>1. /\ holding = <<>> /\ sent = <<>> /\ stack = <<>> /\ a = 0 /\ z = FALSE
      /\ iff = FALSE /\ pc \in {"_start", "putdec"} /\ ret = "loop"
      /\ other = [d |-> 0, e |-> 0, hl |-> 0]
  BY DEF Init
<1>2. Shown = <<>>
  <2>1. <<>> \in Seq(Nat)  OBVIOUS
  <2> QED  BY <1>1, <2>1, ConcatEmptySeq DEF Shown
<1>3. Range(<<>>) = {} /\ Once(<<>>) /\ Stripped(<<>>) = <<>>
  BY DEF Range, Once, Stripped
<1>4. Handled
  <2>1. other.d = 0 /\ 0 # ISR  BY <1>1 DEF ISR
  <2> QED  BY <1>2, <1>3, <2>1 DEF Handled
<1>5. Free  BY <1>1 DEF Free
<1>6. regs \in Bank /\ other \in Bank => Typed
  <2>1. /\ stack \in Seq(Nat \ {ISR}) /\ sent \in Seq(Nat) /\ holding \in Seq(Nat)
        /\ a \in Nat
    BY <1>1
  <2>2. z \in BOOLEAN /\ iff \in BOOLEAN  BY <1>1
  <2> QED  BY <2>1, <2>2 DEF Typed
<1>7. CASE /\ pc = "_start" /\ asked = <<>>
           /\ regs \in [d : {0}, e : Scancodes, hl : {0}]
  <2>1. \A code \in Scancodes : code \in Nat /\ code < 256
    <3>1. Scancodes \subseteq Nat /\ \A code \in Scancodes : code < 256
      BY MonitorAssumption
    <3> QED  BY <3>1
  <2>2. regs \in Bank /\ regs.e < 256
    <3>1. regs.d = 0 /\ regs.hl = 0 /\ regs.e \in Scancodes
          /\ regs = [d |-> regs.d, e |-> regs.e, hl |-> regs.hl]
      BY <1>7
    <3>2. regs.d \in Nat /\ regs.e \in Nat /\ regs.hl \in Nat /\ regs.e < 256
      BY <2>1, <3>1
    <3> QED  BY <3>1, <3>2 DEF Bank
  <2>3. other \in Bank  BY <1>1 DEF Bank
  <2>4. Typed  BY <1>6, <2>2, <2>3
  <2>5. Loaded  BY <1>7, <2>2 DEF Loaded, Held, Writing
  <2>6. Pending = <<>>  BY <1>7 DEF Pending, Rest, Held
  <2>7. Wanted = <<>>
    <3>1. [j \in DOMAIN asked |-> Text(asked[j])] = <<>>  BY <1>7
    <3> QED  BY <3>1 DEF Wanted, FlattenSeq
  <2>8. <<>> \o <<>> = <<>>
    <3>1. <<>> \in Seq(Nat)  OBVIOUS
    <3> QED  BY <3>1, ConcatEmptySeq
  <2>9. Told  BY <1>2, <1>3, <2>6, <2>7, <2>8 DEF Told
  <2> QED  BY <1>4, <1>5, <2>4, <2>5, <2>9
<1>8. CASE /\ pc = "putdec"
           /\ \E n \in Numbers : regs = [d |-> 0, e |-> 0, hl |-> n]
                                 /\ asked = <<[kind |-> "number", v |-> n]>>
  <2>1. PICK n \in Numbers : regs = [d |-> 0, e |-> 0, hl |-> n]
                             /\ asked = <<[kind |-> "number", v |-> n]>>
    BY <1>8
  <2>2. n \in Nat /\ n < 65536
    <3>1. Numbers \subseteq Nat /\ \A m \in Numbers : m < 65536
      BY MonitorAssumption
    <3> QED  BY <2>1, <3>1
  <2>3. regs \in Bank /\ other \in Bank  BY <1>1, <2>1, <2>2 DEF Bank
  <2>4. Typed  BY <1>6, <2>3
  <2>5. Loaded
    <3>1. ~Scanning
      <4>1. asked \notin Seq(Scan)  BY <2>1, NumberIsNoScan
      <4> QED  BY <4>1 DEF Scanning
    <3> QED  BY <1>8, <2>1, <2>2, <3>1 DEF Loaded, Held
  <2> DEFINE x == Decimal(n)
  <2>6. x \in Seq(Nat)  BY <2>2, DecimalType
  <2>7. Pending = x
    <3>1. Pending = Decimal(n) \o Reverse(<<>>)
      BY <1>1, <1>8, <2>1 DEF Pending, Held
    <3> QED  BY <2>6, <3>1, ReverseEmpty, ConcatEmptySeq
  <2>8. Wanted = x
    <3>1. Wanted = FlattenSeq([j \in {1} |-> x])
      <4>1. DOMAIN asked = {1} /\ asked[1] = [kind |-> "number", v |-> n]
        BY <2>1
      <4>2. Text(asked[1]) = x  BY <4>1 DEF Text
      <4>3. [j \in DOMAIN asked |-> Text(asked[j])] = [j \in {1} |-> x]
        BY <4>1, <4>2
      <4> QED  BY <4>3 DEF Wanted
    <3> HIDE DEF x
    <3>2. [j \in {1} |-> x] = Append(<<>>, x)  OBVIOUS
    <3>3. FlattenSeq(<<>>) = <<>>  BY DEF FlattenSeq
    <3>4. <<>> \in Seq(Seq(Nat))  OBVIOUS
    <3>5. FlattenSeq(Append(<<>>, x)) = <<>> \o x
      BY <2>6, <3>3, <3>4, FlattenAppend
    <3> QED  BY <2>6, <3>1, <3>2, <3>5, ConcatEmptySeq
  <2>9. <<>> \o x = x  BY <2>6, ConcatEmptySeq
  <2>10. Told  BY <1>2, <1>3, <2>7, <2>8, <2>9 DEF Told
  <2> QED  BY <1>4, <1>5, <2>4, <2>5, <2>10
<1> QED  BY <1>7, <1>8 DEF Init

\* What is left is a text.
LEMMA PendingType == ASSUME Typed PROVE Pending \in Seq(Nat)
<1>1. regs.d \in Nat /\ regs.e \in Nat /\ regs.hl \in Nat /\ a \in Nat
  BY Updates DEF Typed
<1>2. \A p : Rest(p) \in Seq(Nat)  BY RestType
<1>3. Cons(a, Rest(ret)) \in Seq(Nat) /\ Cons(regs.d, Rest(ret)) \in Seq(Nat)
  BY <1>1, <1>2, ConsType
<1>4. \A k : Letters(k, regs.e) \in Seq(Nat)  BY <1>1, LettersType
<1>5. Msd(regs.hl) \in Seq(Nat)
  <2>1. Letters(3, regs.hl) = Msd(regs.hl)  BY DEF Letters
  <2> QED  BY <1>1, <2>1, LettersType
<1>6. Decimal(regs.hl) \o Reverse(stack) \in Seq(Nat)
  <2>1. Reverse(stack) \in Seq(Nat)  BY DEF Typed, Reverse
  <2>2. Decimal(regs.hl) \in Seq(Nat)  BY <1>1, DecimalType
  <2> QED  BY <2>1, <2>2, ConcatProperties
<1> QED  BY <1>2, <1>3, <1>4, <1>5, <1>6 DEF Pending

\* The parts together say what ConsoleText says.
LEMMA ToldConsole == ASSUME Typed, Free, Handled, Told PROVE ConsoleText
<1>1. Console = Stripped(Shown)  BY DEF Console, Stripped, Shown
<1>2. Stripped(Shown) \in Seq(Nat)
  <2>1. Shown \in Seq(Nat)  BY ConcatProperties DEF Typed, Shown
  <2> QED  BY <2>1, StrippedType DEF Handled
<1>3. Pending \in Seq(Nat)  BY PendingType
<1>4. IsPrefix(Console, Wanted)  BY <1>1, <1>2, <1>3, ConcatPrefix DEF Told
<1> QED  BY <1>4 DEF ConsoleText, Handled, Shown

\* Only an interrupt changes what it has come to, and there is but one.
LEMMA UnstruckStep ==
  ASSUME Keys, Unstruck, [Next]_vars
  PROVE  Unstruck' /\ (Harmless' => Harmless)
<1>1. CASE isr0_handler
  <2>1. struck = "none"  BY <1>1 DEF isr0_handler, Unstruck, Fresh
  <2>2. Harmless  BY <2>1 DEF Harmless
  <2>3. iff' = FALSE /\ pc' = pc /\ struck' = pc  BY <1>1 DEF isr0_handler
  <2>4. pc # "_start"  BY <1>1 DEF isr0_handler, Unstruck
  <2> QED  BY <2>2, <2>3, <2>4 DEF Unstruck, Fresh
<1>2. CASE ~isr0_handler
  <2>1. struck' = struck
    BY <1>2 DEF Next, Program, Polling, Printing, _start, loop, cp_e, ld_e,
       jr_z, puts, puts_cp, puts_jr, puts_inc, print, putchar, cpu,
       _putchar_wait_txe, wait_bit, wait_jr, ld_a_d, out, putdec, _putdec_3,
       press, transmit, vars
  <2>2. (Fresh' => Fresh) /\ (pc' = "_start" => pc = "_start" /\ iff' = iff)
    BY <1>2 DEF Next, Program, Polling, Printing, _start, loop, cp_e, ld_e,
       jr_z, puts, puts_cp, puts_jr, puts_inc, print, putchar, cpu, Character,
       _putchar_wait_txe, wait_bit, wait_jr, ld_a_d, out, putdec, _putdec_3,
       press, transmit, vars, Goes, Fresh, Keys, Running, Scanning, Counting,
       Writing, Returns
  <2> QED  BY <2>1, <2>2 DEF Unstruck, Harmless
<1> QED  BY <1>1, <1>2

\* ConsoleText for all scancodes and all numbers of 16 bits: an interrupt
\* that comes where A and the flags are dead loses nothing, and makes no
\* difference but the text of the handler.
THEOREM NothingLostOnConsole == Spec => []ConsoleText
<1> DEFINE Texts == Typed /\ Loaded /\ Free /\ Handled /\ Told
           Inv == Keys /\ Unstruck /\ (Harmless => Texts)
<1>1. Init => Inv
  <2>1. Init => Unstruck  BY DEF Init, Unstruck
  <2> QED  BY <2>1, KeysInit, ConsoleInit
<1>2. Inv /\ [Next]_vars => Inv'
  <2> SUFFICES ASSUME Inv, [Next]_vars PROVE Inv'
    OBVIOUS
  <2>1. Keys' /\ Unstruck' /\ (Harmless' => Harmless)
    BY KeysStep, UnstruckStep
  <2>2. ASSUME Harmless' PROVE Texts'
    <3>1. Texts  BY <2>1, <2>2
    <3> QED
      BY <2>2, <3>1, TypedStep, LoadedStep, FreeStep, HandledStep, ToldStep
  <2> QED  BY <2>1, <2>2
<1>3. Inv => ConsoleText
  <2>1. Texts => ConsoleText  BY ToldConsole
  <2> QED  BY <2>1 DEF ConsoleText
<1> QED  BY <1>1, <1>2, <1>3, PTL DEF Spec
============================================================================
