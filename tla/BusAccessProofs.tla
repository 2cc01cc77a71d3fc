-------------------------- MODULE BusAccessProofs --------------------------
(***************************************************************************)
(* Proofs about BusAccess for every width of the two buses and every plan. *)
(* A pin operation changes one pin, so what a state promises of the pins   *)
(* depends on the operations still to come (Left): the invariants relate   *)
(* the two.                                                                *)
(***************************************************************************)
EXTENDS BusAccess, SequenceTheorems, TLAPS

USE WidthAssumption, PlanAssumption

\* The elements of a sequence; of program, the operations still to come.
Left(s) == {s[i] : i \in 1 .. Len(s)}

---------------------------------------------------------------------------
(* Sequences of operations.                                                *)

\* Concatenation joins the elements.
LEMMA LeftConcat ==
  ASSUME NEW S, NEW s \in Seq(S), NEW t \in Seq(S)
  PROVE  s \o t \in Seq(S) /\ Left(s \o t) = Left(s) \cup Left(t)
<1>1. /\ s \o t \in Seq(S) /\ Len(s \o t) = Len(s) + Len(t)
      /\ Len(s) \in Nat /\ Len(t) \in Nat
      /\ \A i \in 1 .. Len(s) + Len(t) :
           (s \o t)[i] = IF i <= Len(s) THEN s[i] ELSE t[i - Len(s)]
  BY ConcatProperties, LenProperties
<1>2. Left(s \o t) \subseteq Left(s) \cup Left(t)
  BY <1>1 DEF Left
<1>3. ASSUME NEW i \in 1 .. Len(s) PROVE s[i] \in Left(s \o t)
  <2>1. i \in 1 .. Len(s) + Len(t) /\ (s \o t)[i] = s[i]
    BY <1>1
  <2> QED BY <2>1, <1>1 DEF Left
<1>4. ASSUME NEW i \in 1 .. Len(t) PROVE t[i] \in Left(s \o t)
  <2>1. i + Len(s) \in 1 .. Len(s) + Len(t) /\ (s \o t)[i + Len(s)] = t[i]
    BY <1>1
  <2> QED BY <2>1, <1>1 DEF Left
<1> QED BY <1>1, <1>2, <1>3, <1>4 DEF Left

\* Taking the head leaves the other elements, each one place further on.
LEMMA LeftTail ==
  ASSUME NEW S, NEW s \in Seq(S), s # <<>>
  PROVE  /\ Head(s) \in S /\ Head(s) = s[1] /\ Tail(s) \in Seq(S)
         /\ Left(s) = {Head(s)} \cup Left(Tail(s))
         /\ Len(s) \in Nat \ {0} /\ Len(Tail(s)) = Len(s) - 1
         /\ \A i \in 1 .. Len(Tail(s)) : Tail(s)[i] = s[i + 1]
         /\ Tail(s) = <<>> <=> Len(s) = 1
<1>1. /\ Len(s) \in Nat \ {0} /\ Head(s) = s[1] /\ Head(s) \in S
      /\ Tail(s) \in Seq(S) /\ Len(Tail(s)) = Len(s) - 1
      /\ \A i \in 1 .. Len(Tail(s)) : Tail(s)[i] = s[i + 1]
  OBVIOUS
<1>2. Left(s) \subseteq {Head(s)} \cup Left(Tail(s))
  <2> SUFFICES ASSUME NEW i \in 1 .. Len(s) PROVE s[i] \in {Head(s)} \cup Left(Tail(s))
    BY DEF Left
  <2>1. CASE i = 1
    BY <2>1, <1>1
  <2>2. CASE i # 1
    <3>1. i - 1 \in 1 .. Len(Tail(s)) /\ Tail(s)[i - 1] = s[i]
      BY <2>2, <1>1
    <3> QED BY <3>1 DEF Left
  <2> QED BY <2>1, <2>2
<1>3. {Head(s)} \cup Left(Tail(s)) \subseteq Left(s)
  BY <1>1 DEF Left
<1>4. Tail(s) = <<>> <=> Len(s) = 1
  <2>1. Tail(s) # <<>> => Len(Tail(s)) # 0
    BY <1>1, EmptySeq
  <2> QED BY <1>1, <2>1, EmptySeq
<1> QED BY <1>1, <1>2, <1>3, <1>4

\* An element put before a sequence is its head.
LEMMA Cons ==
  ASSUME NEW S, NEW e \in S, NEW t \in Seq(S)
  PROVE  /\ <<e>> \o t \in Seq(S) /\ <<e>> \o t # <<>>
         /\ Head(<<e>> \o t) = e /\ Tail(<<e>> \o t) = t
<1>1. /\ <<e>> \in Seq(S) /\ Len(<<e>>) = 1 /\ <<e>>[1] = e /\ Len(t) \in Nat
  OBVIOUS
<1> DEFINE s == <<e>>
<1> HIDE DEF s
<1>2. /\ s \o t \in Seq(S) /\ Len(s \o t) = Len(t) + 1 /\ (s \o t)[1] = e
      /\ \A i \in 1 .. Len(t) : (s \o t)[i + 1] = t[i]
  <2>1. /\ s \in Seq(S) /\ Len(s) = 1 /\ s[1] = e
    BY <1>1 DEF s
  <2>2. /\ s \o t \in Seq(S) /\ Len(s \o t) = Len(s) + Len(t)
        /\ \A i \in 1 .. Len(s) + Len(t) :
             (s \o t)[i] = IF i <= Len(s) THEN s[i] ELSE t[i - Len(s)]
    BY <2>1, ConcatProperties
  <2> QED BY <1>1, <2>1, <2>2
<1>3. s \o t # <<>>
  BY <1>1, <1>2, EmptySeq
<1>4. /\ Head(s \o t) = e /\ Tail(s \o t) \in Seq(S) /\ Len(Tail(s \o t)) = Len(t)
      /\ \A i \in 1 .. Len(t) : Tail(s \o t)[i] = t[i]
  BY <1>1, <1>2, <1>3, LeftTail
<1>5. Tail(s \o t) = t
  BY <1>4, SeqEqual
<1> QED BY <1>2, <1>3, <1>4, <1>5 DEF s

\* The lines are pins of the board, and RESET is none the Z80 drives.
LEMMA PinFacts ==
  /\ BUS_A \in Seq(AllPins) /\ Left(BUS_A) = Pins(BUS_A)
  /\ BUS_D \in Seq(AllPins) /\ Left(BUS_D) = Pins(BUS_D)
  /\ {MREQ, BUSRQ, WR, RD, RESET} \subseteq AllPins
  /\ RESET \notin Z80Pins /\ RESET # BUSRQ
<1>1. \A i \in 1 .. AWidth : <<"A", i>> \in AllPins
  BY DEF AllPins, Z80Pins, Pins, BUS_A
<1>2. \A i \in 1 .. DWidth : <<"D", i>> \in AllPins
  BY DEF AllPins, Z80Pins, Pins, BUS_D
<1>3. BUS_A \in Seq(AllPins) /\ BUS_D \in Seq(AllPins)
  BY <1>1, <1>2, IsASeq DEF BUS_A, BUS_D
<1>4. Left(BUS_A) = Pins(BUS_A) /\ Left(BUS_D) = Pins(BUS_D)
  BY DEF Left, Pins, BUS_A, BUS_D
<1>5. {MREQ, BUSRQ, WR, RD, RESET} \subseteq AllPins
  BY DEF AllPins, Z80Pins
<1>6. RESET \notin Z80Pins /\ RESET # BUSRQ
  BY DEF Z80Pins, Pins, BUS_A, BUS_D, MREQ, WR, RD, RESET, BUSRQ
<1> QED BY <1>3, <1>4, <1>5, <1>6

\* An operation on every line of a bus.
LEMMA EachFacts ==
  ASSUME NEW bus \in Seq(AllPins)
  PROVE  /\ Each(cfg_pin_as_output, bus) \in Seq(Ops)
         /\ Left(Each(cfg_pin_as_output, bus)) = {cfg_pin_as_output(p) : p \in Left(bus)}
         /\ Each(cfg_pin_as_input, bus) \in Seq(Ops)
         /\ Left(Each(cfg_pin_as_input, bus)) = {cfg_pin_as_input(p) : p \in Left(bus)}
         /\ Each(set_pin_high, bus) \in Seq(Ops)
         /\ Left(Each(set_pin_high, bus)) = {set_pin_high(p) : p \in Left(bus)}
         /\ Each(set_pin_low, bus) \in Seq(Ops)
         /\ Left(Each(set_pin_low, bus)) = {set_pin_low(p) : p \in Left(bus)}
         /\ Each(sample, bus) \in Seq(Ops)
         /\ Left(Each(sample, bus)) = {sample(p) : p \in Left(bus)}
<1>1. DOMAIN bus = 1 .. Len(bus) /\ Len(bus) \in Nat /\ \A i \in 1 .. Len(bus) : bus[i] \in AllPins
  BY LenProperties
<1>2. \A p \in AllPins : {cfg_pin_as_output(p), cfg_pin_as_input(p), set_pin_high(p),
                           set_pin_low(p), sample(p)} \subseteq Ops
  BY DEF Ops, cfg_pin_as_output, cfg_pin_as_input, set_pin_high, set_pin_low, sample
<1>3. [i \in 1 .. Len(bus) |-> cfg_pin_as_output(bus[i])] \in Seq(Ops)
  BY <1>1, <1>2
<1>4. [i \in 1 .. Len(bus) |-> cfg_pin_as_input(bus[i])] \in Seq(Ops)
  BY <1>1, <1>2
<1>5. [i \in 1 .. Len(bus) |-> set_pin_high(bus[i])] \in Seq(Ops)
  BY <1>1, <1>2
<1>6. [i \in 1 .. Len(bus) |-> set_pin_low(bus[i])] \in Seq(Ops)
  BY <1>1, <1>2
<1>7. [i \in 1 .. Len(bus) |-> sample(bus[i])] \in Seq(Ops)
  BY <1>1, <1>2
<1> QED BY <1>1, <1>3, <1>4, <1>5, <1>6, <1>7 DEF Each, Left

\* A bus is set to a value with nothing but changes to its lines' latches.
LEMMA SetFacts ==
  ASSUME NEW bus \in Seq(AllPins), NEW value
  PROVE  /\ Set(bus, value) \in Seq(Ops)
         /\ \A o \in Left(Set(bus, value)) :
              o.do \in {"low", "high", "leave"} /\ o.pin \in Left(bus)
<1> DEFINE Raise(p) == IF p[2] \in value THEN set_pin_high(p) ELSE leave(p)
<1>1. DOMAIN bus = 1 .. Len(bus) /\ Len(bus) \in Nat /\ \A i \in 1 .. Len(bus) : bus[i] \in AllPins
  BY LenProperties
<1>2. \A p \in AllPins : Raise(p) \in Ops /\ Raise(p).do \in {"high", "leave"} /\ Raise(p).pin = p
  BY DEF Ops, set_pin_high, leave
<1> HIDE DEF Raise
<1>3. [i \in 1 .. Len(bus) |-> Raise(bus[i])] \in Seq(Ops)
  BY <1>1, <1>2
<1>4. Left([i \in 1 .. Len(bus) |-> Raise(bus[i])]) = {Raise(p) : p \in Left(bus)}
  BY <1>1 DEF Left
<1>5. Each(Raise, bus) \in Seq(Ops) /\ Left(Each(Raise, bus)) = {Raise(p) : p \in Left(bus)}
  BY <1>1, <1>3, <1>4 DEF Each
<1>6. Set(bus, value) = Each(set_pin_low, bus) \o Each(Raise, bus)
  BY DEF Set, Raise
<1>7. /\ Each(set_pin_low, bus) \in Seq(Ops)
      /\ Left(Each(set_pin_low, bus)) = {set_pin_low(p) : p \in Left(bus)}
  BY EachFacts
<1>8. /\ Set(bus, value) \in Seq(Ops)
      /\ Left(Set(bus, value)) = {set_pin_low(p) : p \in Left(bus)} \cup {Raise(p) : p \in Left(bus)}
  <2> DEFINE s == Each(set_pin_low, bus)
             t == Each(Raise, bus)
  <2> HIDE DEF s, t
  <2>1. s \in Seq(Ops) /\ t \in Seq(Ops) => s \o t \in Seq(Ops) /\ Left(s \o t) = Left(s) \cup Left(t)
    BY LeftConcat
  <2> QED BY <2>1, <1>5, <1>6, <1>7 DEF s, t
<1>9. \A p \in Left(bus) : p \in AllPins
  BY <1>1 DEF Left
<1> QED BY <1>2, <1>8, <1>9 DEF set_pin_low

---------------------------------------------------------------------------
(* What the functions of the firmware do to the pins.                      *)

\* The control lines, as sequences of pins.
LEMMA ControlFacts ==
  /\ <<MREQ, BUSRQ, WR, RD, RESET>> \in Seq(AllPins)
  /\ Left(<<MREQ, BUSRQ, WR, RD, RESET>>) = {MREQ, BUSRQ, WR, RD, RESET}
  /\ <<MREQ, BUSRQ, WR, RD>> \in Seq(AllPins)
  /\ Left(<<MREQ, BUSRQ, WR, RD>>) = {MREQ, BUSRQ, WR, RD}
  /\ <<MREQ, WR, RD>> \in Seq(AllPins)
  /\ Left(<<MREQ, WR, RD>>) = {MREQ, WR, RD}
  /\ <<RD, WR, MREQ>> \in Seq(AllPins)
  /\ Left(<<RD, WR, MREQ>>) = {MREQ, WR, RD}
<1>1. {MREQ, BUSRQ, WR, RD, RESET} \subseteq AllPins
  BY PinFacts
<1>2. /\ 1 .. 5 = {1, 2, 3, 4, 5} /\ 1 .. 4 = {1, 2, 3, 4} /\ 1 .. 3 = {1, 2, 3}
  OBVIOUS
<1>3. Left(<<MREQ, BUSRQ, WR, RD, RESET>>) = {MREQ, BUSRQ, WR, RD, RESET}
  BY <1>2 DEF Left
<1>4. Left(<<MREQ, BUSRQ, WR, RD>>) = {MREQ, BUSRQ, WR, RD}
  BY <1>2 DEF Left
<1>5. Left(<<MREQ, WR, RD>>) = {MREQ, WR, RD} /\ Left(<<RD, WR, MREQ>>) = {MREQ, WR, RD}
  BY <1>2 DEF Left
<1> QED BY <1>1, <1>3, <1>4, <1>5

\* main makes every pin an output, RESET too, and lowers none.
LEMMA BootFacts ==
  /\ boot \in Seq(Ops) /\ boot # <<>>
  /\ \A o \in Left(boot) : o.do \in {"output", "high"}
  /\ cfg_pin_as_output(RESET) \in Left(boot)
<1> DEFINE control == <<MREQ, BUSRQ, WR, RD, RESET>>
           ad == BUS_A \o BUS_D
           pins == ad \o control
           outputs == Each(cfg_pin_as_output, pins)
           highs == Each(set_pin_high, control)
<1>1. control \in Seq(AllPins) /\ RESET \in Left(control)
  BY ControlFacts
<1>2. boot = outputs \o highs
  BY DEF boot
<1> HIDE DEF control
<1>3. ad \in Seq(AllPins)
  BY PinFacts, LeftConcat
<1> HIDE DEF ad
<1>4. pins \in Seq(AllPins) /\ RESET \in Left(pins)
  BY <1>1, <1>3, LeftConcat
<1> HIDE DEF pins
<1>5. outputs \in Seq(Ops) /\ Left(outputs) = {cfg_pin_as_output(p) : p \in Left(pins)}
  BY <1>4, EachFacts
<1>6. highs \in Seq(Ops) /\ Left(highs) = {set_pin_high(p) : p \in Left(control)}
  BY <1>1, EachFacts
<1> HIDE DEF outputs, highs
<1>7. boot \in Seq(Ops) /\ Left(boot) = Left(outputs) \cup Left(highs)
  BY <1>2, <1>5, <1>6, LeftConcat
<1>8. cfg_pin_as_output(RESET) \in Left(boot)
  BY <1>4, <1>5, <1>7
<1>9. boot # <<>>
  BY <1>8, EmptySeq DEF Left
<1>10. /\ \A o \in Left(outputs) : o.do = "output"
       /\ \A o \in Left(highs) : o.do = "high"
  BY <1>5, <1>6 DEF cfg_pin_as_output, set_pin_high
<1> QED BY <1>7, <1>8, <1>9, <1>10

\* An acquire begins with the reset and does not touch RESET again.
LEMMA AcquireFacts ==
  /\ bc80_bus_acquire \in Seq(Ops) /\ bc80_bus_acquire # <<>>
  /\ Head(bc80_bus_acquire) = set_pin_low(RESET)
  /\ \A o \in Left(Tail(bc80_bus_acquire)) : o.pin # RESET
<1> DEFINE control == <<MREQ, WR, RD>>
           lines == BUS_A \o control
           outputs == Each(cfg_pin_as_output, lines)
           highs == Each(set_pin_high, <<RD, WR, MREQ>>)
           rest == outputs \o highs
<1>1. control \in Seq(AllPins) /\ Left(control) = {MREQ, WR, RD}
  BY ControlFacts
<1>2. highs \in Seq(Ops) /\ Left(highs) = {set_pin_high(p) : p \in {MREQ, WR, RD}}
  BY ControlFacts, EachFacts
<1>3. bc80_bus_acquire = (<<set_pin_low(RESET)>> \o outputs) \o highs
  BY DEF bc80_bus_acquire
<1> HIDE DEF control
<1>4. lines \in Seq(AllPins) /\ Left(lines) = Pins(BUS_A) \cup {MREQ, WR, RD}
  BY <1>1, PinFacts, LeftConcat
<1> HIDE DEF lines
<1>5. outputs \in Seq(Ops) /\ Left(outputs) = {cfg_pin_as_output(p) : p \in Left(lines)}
  BY <1>4, EachFacts
<1>6. set_pin_low(RESET) \in Ops /\ <<set_pin_low(RESET)>> \in Seq(Ops)
  BY PinFacts DEF set_pin_low, Ops
<1> HIDE DEF outputs, highs
<1>7. bc80_bus_acquire = <<set_pin_low(RESET)>> \o rest
  BY <1>2, <1>3, <1>5, <1>6, ConcatAssociative
<1>8. rest \in Seq(Ops) /\ Left(rest) = Left(outputs) \cup Left(highs)
  BY <1>2, <1>5, LeftConcat
<1>9. \A o \in Left(outputs) \cup Left(highs) : o.pin # RESET
  <2>1. \A p \in Pins(BUS_A) \cup {MREQ, WR, RD} : p # RESET
    BY PinFacts DEF Z80Pins
  <2> QED BY <1>2, <1>4, <1>5, <2>1 DEF cfg_pin_as_output, set_pin_high
<1> HIDE DEF rest
<1>10. /\ bc80_bus_acquire \in Seq(Ops) /\ bc80_bus_acquire # <<>>
       /\ Head(bc80_bus_acquire) = set_pin_low(RESET) /\ Tail(bc80_bus_acquire) = rest
  BY <1>6, <1>7, <1>8, Cons
<1> QED BY <1>8, <1>9, <1>10

\* A release first frees every line of the Z80 and lets it run at the end.
LEMMA ReleaseFacts ==
  /\ bc80_bus_release \in Seq(Ops) /\ bc80_bus_release # <<>>
  /\ \A o \in Left(bc80_bus_release) : o.do \in {"input", "high"}
  /\ \A p \in Z80Pins : cfg_pin_as_input(p) \in Left(bc80_bus_release)
  /\ set_pin_high(RESET) \in Left(bc80_bus_release)
  /\ \A i \in 1 .. Len(bc80_bus_release) :
       bc80_bus_release[i].pin = RESET =>
         i = Len(bc80_bus_release) /\ bc80_bus_release[i].do = "high"
<1> DEFINE control == <<MREQ, BUSRQ, WR, RD>>
           ad == BUS_A \o BUS_D
           lines == ad \o control
           highs == Each(set_pin_high, <<RD, WR, MREQ>>)
           inputs == Each(cfg_pin_as_input, lines)
           front == highs \o inputs
           last == <<set_pin_high(RESET)>>
<1>1. control \in Seq(AllPins) /\ Left(control) = {MREQ, BUSRQ, WR, RD}
  BY ControlFacts
<1>2. highs \in Seq(Ops) /\ Left(highs) = {set_pin_high(p) : p \in {MREQ, WR, RD}}
  BY ControlFacts, EachFacts
<1>3. ad \in Seq(AllPins) /\ Left(ad) = Pins(BUS_A) \cup Pins(BUS_D)
  BY PinFacts, LeftConcat
<1>4. bc80_bus_release = front \o last
  BY DEF bc80_bus_release
<1> HIDE DEF ad, control
<1>5. lines \in Seq(AllPins) /\ Left(lines) = Z80Pins \cup {BUSRQ}
  <2>1. lines \in Seq(AllPins) /\ Left(lines) = Left(ad) \cup Left(control)
    BY <1>1, <1>3, LeftConcat
  <2> QED BY <2>1, <1>1, <1>3 DEF Z80Pins
<1> HIDE DEF lines
<1>6. inputs \in Seq(Ops) /\ Left(inputs) = {cfg_pin_as_input(p) : p \in Left(lines)}
  BY <1>5, EachFacts
<1> HIDE DEF highs, inputs
<1>7. front \in Seq(Ops) /\ Left(front) = Left(highs) \cup Left(inputs)
  BY <1>2, <1>6, LeftConcat
<1>8. \A o \in Left(front) : o.do \in {"input", "high"} /\ o.pin # RESET
  <2>1. \A p \in Z80Pins \cup {BUSRQ, MREQ, WR, RD} : p # RESET
    BY PinFacts DEF Z80Pins
  <2> QED BY <1>2, <1>5, <1>6, <1>7, <2>1 DEF cfg_pin_as_input, set_pin_high
<1>9. \A p \in Z80Pins : cfg_pin_as_input(p) \in Left(front)
  BY <1>5, <1>6, <1>7
<1> HIDE DEF front
<1>10. set_pin_high(RESET) \in Ops /\ last \in Seq(Ops) /\ Left(last) = {set_pin_high(RESET)}
       /\ Len(last) = 1 /\ last[1] = set_pin_high(RESET)
  BY PinFacts DEF set_pin_high, Ops, Left
<1> HIDE DEF last
<1>11. bc80_bus_release \in Seq(Ops) /\ Left(bc80_bus_release) = Left(front) \cup Left(last)
  BY <1>4, <1>7, <1>10, LeftConcat
<1>12. /\ Len(front) \in Nat /\ Len(bc80_bus_release) = Len(front) + 1
       /\ \A i \in 1 .. Len(front) + 1 :
            bc80_bus_release[i] = IF i <= Len(front) THEN front[i] ELSE last[i - Len(front)]
  <2>1. /\ Len(front \o last) = Len(front) + Len(last)
        /\ \A i \in 1 .. Len(front) + Len(last) :
             (front \o last)[i] = IF i <= Len(front) THEN front[i] ELSE last[i - Len(front)]
    BY <1>7, <1>10, ConcatProperties
  <2>2. Len(front) \in Nat
    BY <1>7, LenProperties
  <2> QED BY <1>4, <1>10, <2>1, <2>2
<1>13. \A i \in 1 .. Len(bc80_bus_release) :
          \/ i = Len(bc80_bus_release) /\ bc80_bus_release[i] = set_pin_high(RESET)
          \/ bc80_bus_release[i] \in Left(front)
  BY <1>10, <1>12 DEF Left
<1>14. bc80_bus_release # <<>>
  BY <1>11, <1>12, EmptySeq
<1> QED BY <1>8, <1>9, <1>10, <1>11, <1>13, <1>14 DEF set_pin_high

\* A read and a write use the strobes, the address and the data lines only.
LEMMA ReadWriteFacts ==
  ASSUME NEW addr \in Address, NEW byte \in Byte
  PROVE  /\ bc80_read_mem(addr) \in Seq(Ops)
         /\ \A o \in Left(bc80_read_mem(addr)) : o.pin # RESET
         /\ bc80_write_mem(addr, byte) \in Seq(Ops)
         /\ \A o \in Left(bc80_write_mem(addr, byte)) : o.pin # RESET
<1> DEFINE Quiet(s) == s \in Seq(Ops) /\ \A o \in Left(s) : o.pin # RESET
<1>1. ASSUME NEW s, NEW t, Quiet(s), Quiet(t) PROVE Quiet(s \o t)
  BY <1>1, LeftConcat
<1>2. \A p \in Pins(BUS_A) \cup Pins(BUS_D) \cup {MREQ, WR, RD} : p # RESET
  BY PinFacts DEF Z80Pins
<1>3. Quiet(Set(BUS_A, addr)) /\ Quiet(Set(BUS_D, byte))
  BY <1>2, PinFacts, SetFacts
<1>4. /\ Each(cfg_pin_as_input, BUS_D) \in Seq(Ops)
      /\ Left(Each(cfg_pin_as_input, BUS_D)) = {cfg_pin_as_input(p) : p \in Pins(BUS_D)}
      /\ Each(cfg_pin_as_output, BUS_D) \in Seq(Ops)
      /\ Left(Each(cfg_pin_as_output, BUS_D)) = {cfg_pin_as_output(p) : p \in Pins(BUS_D)}
      /\ Each(sample, BUS_D) \in Seq(Ops)
      /\ Left(Each(sample, BUS_D)) = {sample(p) : p \in Pins(BUS_D)}
  BY PinFacts, EachFacts
<1>5. \A p \in Pins(BUS_D) :
        cfg_pin_as_input(p).pin = p /\ cfg_pin_as_output(p).pin = p /\ sample(p).pin = p
  BY DEF cfg_pin_as_input, cfg_pin_as_output, sample
<1>6. /\ Quiet(Each(cfg_pin_as_input, BUS_D)) /\ Quiet(Each(cfg_pin_as_output, BUS_D))
      /\ Quiet(Each(sample, BUS_D))
  BY <1>2, <1>4, <1>5
<1>7. /\ {MREQ, WR, RD} \subseteq AllPins /\ \A p \in {MREQ, WR, RD} : p # RESET
  BY <1>2, PinFacts
<1>8. \A p \in {MREQ, WR, RD} : /\ set_pin_high(p) \in Ops /\ set_pin_high(p).pin # RESET
                                /\ set_pin_low(p) \in Ops /\ set_pin_low(p).pin # RESET
  BY <1>7 DEF set_pin_high, set_pin_low, Ops
<1>9. ASSUME NEW a \in Ops, NEW b \in Ops, NEW c \in Ops,
             a.pin # RESET, b.pin # RESET, c.pin # RESET
      PROVE  Quiet(<<a, b, c>>) /\ Quiet(<<a, b>>)
  <2>1. 1 .. 3 = {1, 2, 3} /\ 1 .. 2 = {1, 2}
    OBVIOUS
  <2>2. Left(<<a, b, c>>) = {a, b, c} /\ Left(<<a, b>>) = {a, b}
    BY <2>1 DEF Left
  <2> QED BY <1>9, <2>2
<1>10. /\ Quiet(<<set_pin_high(WR), set_pin_low(RD), set_pin_low(MREQ)>>)
       /\ Quiet(<<set_pin_high(RD), set_pin_low(WR), set_pin_low(MREQ)>>)
       /\ Quiet(<<set_pin_high(MREQ), set_pin_high(RD)>>)
       /\ Quiet(<<set_pin_high(MREQ), set_pin_high(WR)>>)
  <2> HIDE DEF Quiet
  <2> QED BY <1>8, <1>9
<1> HIDE DEF Quiet
<1>11. Quiet(bc80_read_mem(addr))
  BY <1>1, <1>3, <1>6, <1>10 DEF bc80_read_mem
<1>12. Quiet(bc80_write_mem(addr, byte))
  BY <1>1, <1>3, <1>6, <1>10 DEF bc80_write_mem
<1> QED BY <1>11, <1>12 DEF Quiet

\* A raw pin command is a sequence of operations.
LEMMA RawFacts ==
  ASSUME NEW subcmd \in {"SET_HI", "SET_LO", "GET"}, NEW pin \in AllPins
  PROVE  raw(subcmd, pin) \in Seq(Ops)
<1>1. {cfg_pin_as_output(pin), cfg_pin_as_input(pin), set_pin_high(pin), set_pin_low(pin)}
        \subseteq Ops
  BY DEF Ops, cfg_pin_as_output, cfg_pin_as_input, set_pin_high, set_pin_low
<1> QED BY <1>1 DEF raw

---------------------------------------------------------------------------
(* Types.                                                                  *)

\* What a line may carry at most.
LEMMA LevelsFacts == Levels(BUS_A) \subseteq Address /\ Levels(BUS_D) \subseteq Byte
BY DEF Levels, Address, Byte, BUS_A, BUS_D

\* What one pin operation does.
LEMMA StepFacts ==
  ASSUME TypeOK, Step
  PROVE  LET op == Head(program) IN
         /\ program # <<>> /\ op \in Ops /\ op = program[1]
         /\ program' = Tail(program) /\ program' \in Seq(Ops)
         /\ Left(program) = {op} \cup Left(program')
         /\ Len(program) \in Nat \ {0} /\ Len(program') = Len(program) - 1
         /\ \A i \in 1 .. Len(program') : program'[i] = program[i + 1]
         /\ program' = <<>> <=> Len(program) = 1
         /\ output' = CASE op.do = "output" -> output \cup {op.pin}
                        [] op.do = "input"  -> output \ {op.pin}
                        [] OTHER            -> output
         /\ high' = CASE op.do = "high" -> high \cup {op.pin}
                      [] op.do = "low"  -> high \ {op.pin}
                      [] OTHER          -> high
         /\ g_bus_state' = IF program' = <<>> THEN AfterResponse ELSE g_bus_state
         /\ UNCHANGED <<request, plan, boots>>
<1>1. program \in Seq(Ops) /\ program # <<>>
  BY DEF TypeOK, Step
<1>2. /\ Head(program) \in Ops /\ Head(program) = program[1] /\ Tail(program) \in Seq(Ops)
      /\ Left(program) = {Head(program)} \cup Left(Tail(program))
      /\ Len(program) \in Nat \ {0} /\ Len(Tail(program)) = Len(program) - 1
      /\ \A i \in 1 .. Len(Tail(program)) : Tail(program)[i] = program[i + 1]
      /\ Tail(program) = <<>> <=> Len(program) = 1
  BY <1>1, LeftTail
<1> QED BY <1>1, <1>2 DEF Step

\* The types hold at first.
LEMMA TypesInit == Init => TypeOK
<1> SUFFICES ASSUME Init PROVE TypeOK
  OBVIOUS
<1>1. ram \in [Address -> Byte]
  BY DEF Init, Byte
<1>2. {output, high} \subseteq SUBSET AllPins /\ result \in Byte
  BY DEF Init, Byte
<1> QED BY <1>1, <1>2, BootFacts DEF Init, TypeOK

\* Every step keeps the types.
LEMMA TypesNext == TypeOK /\ [Next]_vars => TypeOK'
<1> SUFFICES ASSUME TypeOK, [Next]_vars PROVE TypeOK'
  OBVIOUS
<1>1. CASE Step
  <2>1. {output', high'} \subseteq SUBSET AllPins
    <3>1. Head(program).pin \in AllPins
      BY <1>1, StepFacts DEF Ops
    <3> QED BY <1>1, <3>1, StepFacts DEF TypeOK
  <2>2. result' \in Byte
    <3>1. ASSUME NEW addr \in Levels(BUS_A), NEW data \in Levels(BUS_D), NEW S,
                 result' = result \cup (S \cap (IF RamReads /\ Head(program).pin \notin output
                                               THEN ram[addr] ELSE data))
          PROVE  result' \in Byte
      <4>1. ram[addr] \in Byte /\ data \in Byte
        BY LevelsFacts DEF TypeOK
      <4> QED BY <3>1, <4>1 DEF TypeOK, Byte
    <3>2. CASE Head(program).do = "sample"
      BY <1>1, <3>1, <3>2 DEF Step
    <3>3. CASE Head(program).do # "sample"
      BY <1>1, <3>3 DEF Step, TypeOK
    <3> QED BY <3>2, <3>3
  <2>3. ram' \in [Address -> Byte]
    <3>1. Levels(BUS_D)' \subseteq Byte
      BY DEF Levels, Byte, BUS_D
    <3>2. CASE RamWrites'
      BY <1>1, <3>1, <3>2 DEF Step, TypeOK
    <3>3. CASE ~RamWrites'
      BY <1>1, <3>3 DEF Step, TypeOK
    <3> QED BY <3>2, <3>3
  <2>4. g_bus_state' \in {"unknown", "acquired", "released"}
    BY <1>1, StepFacts DEF TypeOK, AfterResponse
  <2> QED BY <1>1, <2>1, <2>2, <2>3, <2>4, StepFacts DEF TypeOK
<1>2. CASE Z80Write
  BY <1>2 DEF Z80Write, TypeOK
<1>3. CASE Boot
  BY <1>3, BootFacts DEF Boot, TypeOK, Byte
<1>4. ASSUME NEW command, NEW operations \in Seq(Ops), Send(command, operations)
      PROVE  TypeOK'
  BY <1>4 DEF Send, TypeOK, Byte
<1>5. CASE cmd_acquire
  BY <1>4, <1>5, AcquireFacts DEF cmd_acquire
<1>6. CASE cmd_release
  BY <1>4, <1>6, ReleaseFacts DEF cmd_release
<1>7. CASE cmd_wr
  BY <1>4, <1>7, ReadWriteFacts DEF cmd_wr
<1>8. CASE cmd_rd
  <2>1. {} \in Byte
    BY DEF Byte
  <2> QED BY <1>4, <1>8, <2>1, ReadWriteFacts DEF cmd_rd
<1>9. CASE cmd_pin
  <2>1. PICK pin \in plan.pins, subcmd \in {"SET_HI", "SET_LO", "GET"} :
          Send([name |-> subcmd], raw(subcmd, pin))
    BY <1>9 DEF cmd_pin
  <2>2. pin \in AllPins
    BY DEF TypeOK
  <2> QED BY <1>4, <2>1, <2>2, RawFacts
<1>10. CASE UNCHANGED vars
  BY <1>10 DEF vars, TypeOK
<1> QED BY <1>1, <1>2, <1>3, <1>5, <1>6, <1>7, <1>8, <1>9, <1>10 DEF Next

\* The pins, the operations to come and the RAM keep their types, for every
\* width of the buses and every plan.
THEOREM BusTypes == Spec => []TypeOK
BY TypesInit, TypesNext, PTL DEF Spec

---------------------------------------------------------------------------
(* Release.                                                                *)

\* While a release is under way nothing becomes an output or low, and for
\* every line still driven, and for RESET, the operation that lets it go is
\* still to come, RESET's as the last one.
Releasing ==
  request.name = "release" =>
    /\ \A o \in Left(program) : o.do \in {"input", "high"}
    /\ \A i \in 1 .. Len(program) :
         program[i].pin = RESET => i = Len(program) /\ program[i].do = "high"
    /\ \A p \in output \cap Z80Pins : cfg_pin_as_input(p) \in Left(program)
    /\ Z80Runs \/ set_pin_high(RESET) \in Left(program)

\* Every step keeps it, whatever was driven when the release began.
LEMMA ReleasingNext == TypeOK /\ Releasing /\ [Next]_vars => Releasing'
<1> SUFFICES ASSUME TypeOK, Releasing, [Next]_vars PROVE Releasing'
  OBVIOUS
<1>1. CASE Step
  <2> SUFFICES ASSUME request.name = "release" PROVE Releasing'
    BY <1>1, StepFacts DEF Releasing
  <2> DEFINE op == Head(program)
  <2>1. /\ op \in Left(program) /\ Left(program) = {op} \cup Left(program')
        /\ op.do \in {"input", "high"} /\ request' = request
    BY <1>1, StepFacts DEF Releasing
  <2>2. /\ output' = IF op.do = "input" THEN output \ {op.pin} ELSE output
        /\ high' = IF op.do = "high" THEN high \cup {op.pin} ELSE high
    BY <1>1, <2>1, StepFacts
  <2>3. \A i \in 1 .. Len(program') :
          program'[i].pin = RESET => i = Len(program') /\ program'[i].do = "high"
    <3>1. /\ Len(program) \in Nat \ {0} /\ Len(program') = Len(program) - 1
          /\ \A i \in 1 .. Len(program') : program'[i] = program[i + 1]
      BY <1>1, StepFacts
    <3> QED BY <3>1 DEF Releasing
  <2>4. ASSUME NEW p \in output' \cap Z80Pins
        PROVE  cfg_pin_as_input(p) \in Left(program')
    <3>1. cfg_pin_as_input(p) \in Left(program)
      BY <2>2, <2>4 DEF Releasing
    <3>2. op # cfg_pin_as_input(p)
      BY <2>2, <2>4 DEF cfg_pin_as_input
    <3> QED BY <2>1, <3>1, <3>2
  <2>5. Z80Runs' \/ set_pin_high(RESET) \in Left(program')
    <3>1. Z80Runs => Z80Runs'
      BY <2>2 DEF Z80Runs, Active
    <3>2. op = set_pin_high(RESET) => Z80Runs'
      BY <2>2 DEF Z80Runs, Active, set_pin_high
    <3> QED BY <2>1, <3>1, <3>2 DEF Releasing
  <2> QED BY <2>1, <2>3, <2>4, <2>5 DEF Releasing
<1>2. CASE Z80Write
  BY <1>2 DEF Z80Write, Releasing, Z80Runs, Active
<1>3. CASE Boot
  BY <1>3 DEF Boot, Releasing
<1>4. CASE cmd_release
  <2>1. program' = bc80_bus_release
    BY <1>4 DEF cmd_release, Send
  <2> QED BY <2>1, ReleaseFacts DEF Releasing
<1>5. ASSUME NEW command, NEW operations, Send(command, operations), command.name # "release"
      PROVE  Releasing'
  BY <1>5 DEF Send, Releasing
<1>6. CASE cmd_acquire
  BY <1>5, <1>6 DEF cmd_acquire
<1>7. CASE cmd_wr
  BY <1>5, <1>7 DEF cmd_wr
<1>8. CASE cmd_rd
  BY <1>5, <1>8 DEF cmd_rd
<1>9. CASE cmd_pin
  BY <1>5, <1>9 DEF cmd_pin
<1>10. CASE UNCHANGED vars
  BY <1>10 DEF vars, Releasing, Z80Runs, Active
<1> QED BY <1>1, <1>2, <1>3, <1>4, <1>6, <1>7, <1>8, <1>9, <1>10 DEF Next

\* A finished release has freed every line of the Z80 and lets it run,
\* whatever raw pin commands and power losses came before (bc80_bus_release).
THEOREM ReleaseRecovers == Spec => []ReleaseFrees
<1>1. Init => Releasing
  BY DEF Init, Releasing
<1>2. Releasing => ReleaseFrees
  <2>1. Left(<<>>) = {}
    BY DEF Left
  <2> QED BY <2>1 DEF Releasing, ReleaseFrees
<1> QED BY <1>1, <1>2, TypesInit, TypesNext, ReleasingNext, PTL DEF Spec

---------------------------------------------------------------------------
(* Plain sessions.                                                         *)

\* RESET is low and nothing to come touches it.
Held == RESET \notin high /\ \A o \in Left(program) : o.pin # RESET

\* An acquire that has yet to lower RESET has taken no line of a running Z80.
Taking ==
  /\ program # <<>> /\ Head(program) = set_pin_low(RESET)
  /\ \A o \in Left(Tail(program)) : o.pin # RESET
  /\ Z80Runs => output \cap Z80Pins = {}

\* What each request of a plain session keeps true of RESET and of the lines.
Session ==
  /\ boots = 1
  /\ request.name \in {"boot", "acquire", "release", "write", "read"}
  /\ RESET \in output \/ (request.name = "boot" /\ cfg_pin_as_output(RESET) \in Left(program))
  /\ request.name = "boot" =>
       g_bus_state = "unknown" /\ \A o \in Left(program) : o.do \in {"output", "high"}
  /\ request.name = "release" =>
       /\ program = <<>> => g_bus_state = "released"
       /\ Z80Runs /\ g_bus_state # "unknown" => output \cap Z80Pins = {}
  /\ request.name \in {"acquire", "write", "read"} =>
       g_bus_state # "unknown" /\ (Held \/ (request.name = "acquire" /\ Taking))

\* The whole invariant of the bus.
BusInv == TypeOK /\ Releasing /\ (Plain => Session)

\* Every pin operation keeps it.
LEMMA SessionStep == BusInv /\ Plain /\ Step => Session'
<1> SUFFICES ASSUME BusInv, Plain, Step PROVE Session'
  OBVIOUS
<1> DEFINE op == Head(program)
<1>0. TypeOK /\ Releasing /\ Session
  BY DEF BusInv
<1>1. /\ program # <<>> /\ program' = Tail(program)
      /\ Left(program) = {op} \cup Left(program')
      /\ g_bus_state' = IF program' = <<>> THEN AfterResponse ELSE g_bus_state
      /\ UNCHANGED <<request, plan, boots>>
  BY <1>0, StepFacts
<1>2. output' = CASE op.do = "output" -> output \cup {op.pin}
                 [] op.do = "input"  -> output \ {op.pin}
                 [] OTHER            -> output
  BY <1>0, StepFacts
<1>3. high' = CASE op.do = "high" -> high \cup {op.pin}
               [] op.do = "low"  -> high \ {op.pin}
               [] OTHER          -> high
  BY <1>0, StepFacts
<1> HIDE DEF op
<1>4. /\ boots' = 1
      /\ request'.name \in {"boot", "acquire", "release", "write", "read"}
  BY <1>0, <1>1 DEF Session
<1>5. CASE request.name = "boot"
  <2>1. op.do \in {"output", "high"} /\ \A o \in Left(program') : o.do \in {"output", "high"}
    BY <1>0, <1>1, <1>5 DEF Session
  <2>2. g_bus_state' = "unknown"
    BY <1>0, <1>1, <1>5 DEF Session, AfterResponse
  <2>3. RESET \in output' \/ cfg_pin_as_output(RESET) \in Left(program')
    <3>1. RESET \in output => RESET \in output'
      BY <1>2, <2>1
    <3>2. op = cfg_pin_as_output(RESET) => RESET \in output'
      BY <1>2 DEF cfg_pin_as_output
    <3> QED BY <1>0, <1>1, <3>1, <3>2 DEF Session
  <2> QED BY <1>1, <1>4, <1>5, <2>1, <2>2, <2>3 DEF Session
<1>6. CASE request.name = "release"
  <2>1. op.do \in {"input", "high"} /\ (op.pin = RESET => program' = <<>> /\ op.do = "high")
    <3>1. /\ op = program[1] /\ op \in Left(program) /\ Len(program) \in Nat \ {0}
          /\ program' = <<>> <=> Len(program) = 1
      BY <1>0, StepFacts DEF op
    <3>2. op.do \in {"input", "high"}
      BY <1>0, <1>6, <3>1 DEF Releasing
    <3>3. 1 \in 1 .. Len(program)
      BY <3>1
    <3>4. program[1].pin = RESET => 1 = Len(program) /\ program[1].do = "high"
      BY <1>0, <1>6, <3>3 DEF Releasing
    <3> QED BY <3>1, <3>2, <3>4
  <2>2. RESET \in output'
    BY <1>0, <1>2, <1>6, <2>1 DEF Session
  <2>3. program' = <<>> => g_bus_state' = "released"
    BY <1>1, <1>6 DEF AfterResponse
  <2>4. ASSUME Z80Runs', g_bus_state' # "unknown"
        PROVE  output' \cap Z80Pins = {}
    <3>1. CASE program' = <<>>
      <4>1. Releasing'
        BY <1>0, ReleasingNext DEF Next
      <4>2. \A p \in output' \cap Z80Pins : cfg_pin_as_input(p) \in Left(<<>>)
        BY <1>1, <1>6, <3>1, <4>1 DEF Releasing
      <4> QED BY <4>2 DEF Left
    <3>2. CASE program' # <<>>
      <4>1. op.pin # RESET /\ g_bus_state' = g_bus_state
        BY <1>1, <2>1, <3>2
      <4>2. Z80Runs
        BY <1>2, <1>3, <2>4, <4>1 DEF Z80Runs, Active
      <4>3. output \cap Z80Pins = {}
        BY <1>0, <1>6, <2>4, <4>1, <4>2 DEF Session
      <4> QED BY <1>2, <2>1, <4>3
    <3> QED BY <3>1, <3>2
  <2> QED BY <1>1, <1>4, <1>6, <2>2, <2>3, <2>4 DEF Session
<1>7. CASE request.name \in {"acquire", "write", "read"}
  <2>1. /\ g_bus_state # "unknown" /\ RESET \in output
        /\ Held \/ (request.name = "acquire" /\ Taking)
    BY <1>0, <1>7 DEF Session
  <2>2. g_bus_state' # "unknown"
    BY <1>1, <1>7, <2>1 DEF AfterResponse
  <2>3. RESET \in output' /\ Held'
    <3>1. CASE Held
      <4>1. op.pin # RESET /\ \A o \in Left(program') : o.pin # RESET
        BY <1>1, <3>1 DEF Held
      <4> QED BY <1>2, <1>3, <2>1, <3>1, <4>1 DEF Held
    <3>2. CASE Taking
      <4>1. op = set_pin_low(RESET) /\ \A o \in Left(program') : o.pin # RESET
        BY <1>1, <3>2 DEF Taking, op
      <4> QED BY <1>2, <1>3, <2>1, <4>1 DEF Held, set_pin_low
    <3> QED BY <2>1, <3>1, <3>2
  <2> QED BY <1>1, <1>4, <1>7, <2>2, <2>3 DEF Session
<1> QED BY <1>0, <1>5, <1>6, <1>7 DEF Session

\* When a request of a plain session is done, a client that has taken over
\* holds the Z80 in reset or has freed its lines.
LEMMA Between ==
  ASSUME BusInv, Plain, program = <<>>, g_bus_state # "unknown"
  PROVE  /\ RESET \in output
         /\ Z80Runs => output \cap Z80Pins = {}
         /\ g_bus_state = "acquired" => RESET \notin high
<1>1. Session
  BY DEF BusInv
<1>2. request.name # "boot" /\ RESET \in output
  BY <1>1 DEF Session
<1>3. CASE request.name = "release"
  BY <1>1, <1>2, <1>3 DEF Session
<1>4. CASE request.name \in {"acquire", "write", "read"}
  <2>1. RESET \notin high
    BY <1>1, <1>4 DEF Session, Held, Taking
  <2> QED BY <1>2, <2>1 DEF Z80Runs, Active
<1> QED BY <1>1, <1>2, <1>3, <1>4 DEF Session

\* Every step keeps the invariant.
LEMMA BusInvNext == BusInv /\ [Next]_vars => BusInv'
<1> SUFFICES ASSUME BusInv, [Next]_vars PROVE BusInv'
  OBVIOUS
<1>1. TypeOK' /\ Releasing'
  BY TypesNext, ReleasingNext DEF BusInv
<1> SUFFICES ASSUME Plain PROVE Session'
  <2>1. plan' = plan
    BY DEF Next, Step, Z80Write, Boot, cmd_acquire, cmd_release, cmd_wr, cmd_rd, cmd_pin, Send, vars
  <2> QED BY <1>1, <2>1 DEF BusInv, Plain
<1>2. Session
  BY DEF BusInv
<1>3. CASE Step
  BY <1>3, SessionStep
<1>4. CASE Z80Write
  BY <1>2, <1>4 DEF Z80Write, Session, Held, Taking, Z80Runs, Active
<1>5. CASE Boot
  BY <1>2, <1>5 DEF Boot, Session, Plain
<1>6. CASE cmd_acquire
  <2>1. /\ program = <<>> /\ g_bus_state # "unknown" /\ program' = bc80_bus_acquire
        /\ request' = [name |-> "acquire"] /\ UNCHANGED <<output, high, g_bus_state, plan, boots>>
    BY <1>6 DEF cmd_acquire, Send
  <2>2. RESET \in output /\ (Z80Runs => output \cap Z80Pins = {})
    BY <2>1, Between
  <2>3. Taking'
    BY <2>1, <2>2, AcquireFacts DEF Taking, Z80Runs, Active
  <2> QED BY <1>2, <2>1, <2>2, <2>3 DEF Session
<1>7. CASE cmd_release
  <2>1. /\ program = <<>> /\ program' = bc80_bus_release /\ request' = [name |-> "release"]
        /\ UNCHANGED <<output, high, g_bus_state, plan, boots>>
    BY <1>7 DEF cmd_release, Send
  <2>2. RESET \in output
    <3>1. Left(<<>>) = {}
      BY DEF Left
    <3> QED BY <1>2, <2>1, <3>1 DEF Session
  <2>3. Z80Runs /\ g_bus_state # "unknown" => output \cap Z80Pins = {}
    BY <2>1, Between
  <2>4. Z80Runs' <=> Z80Runs
    BY <2>1 DEF Z80Runs, Active
  <2> QED BY <1>2, <2>1, <2>2, <2>3, <2>4, ReleaseFacts DEF Session
<1>8. ASSUME NEW command, NEW operations, Send(command, operations),
             g_bus_state = "acquired", command.name \in {"write", "read"},
             \A o \in Left(operations) : o.pin # RESET
      PROVE  Session'
  <2>1. /\ program = <<>> /\ program' = operations /\ request' = command
        /\ UNCHANGED <<output, high, g_bus_state, plan, boots>>
    BY <1>8 DEF Send
  <2>2. RESET \in output /\ RESET \notin high
    BY <1>8, <2>1, Between
  <2>3. Held'
    BY <1>8, <2>1, <2>2 DEF Held
  <2> QED BY <1>2, <1>8, <2>1, <2>2, <2>3 DEF Session
<1>9. CASE cmd_wr
  BY <1>8, <1>9, ReadWriteFacts DEF cmd_wr
<1>10. CASE cmd_rd
  <2>1. {} \in Byte
    BY DEF Byte
  <2> QED BY <1>8, <1>10, <2>1, ReadWriteFacts DEF cmd_rd
<1>11. CASE cmd_pin
  BY <1>11 DEF cmd_pin, Plain
<1>12. CASE UNCHANGED vars
  BY <1>2, <1>12 DEF vars, Session, Held, Taking, Z80Runs, Active
<1> QED BY <1>3, <1>4, <1>5, <1>6, <1>7, <1>9, <1>10, <1>11, <1>12 DEF Next

\* The invariant holds at first.
LEMMA BusInvInit == Init => BusInv
<1> SUFFICES ASSUME Init PROVE BusInv
  OBVIOUS
<1>1. Session
  BY BootFacts DEF Init, Session
<1> QED BY <1>1, TypesInit DEF Init, BusInv, Releasing

\* In a plain session the debugger drives no line of a Z80 that runs, at any
\* point of an acquire or a release (cfg_release_bus).
THEOREM BusNeverContended == Spec => []NoContention
<1>1. BusInv => NoContention
  <2> SUFFICES ASSUME BusInv, Plain, Z80Runs, g_bus_state # "unknown"
               PROVE  output \cap Z80Pins = {}
    BY DEF NoContention
  <2>1. Session
    BY DEF BusInv
  <2>2. CASE request.name = "release"
    BY <2>1, <2>2 DEF Session
  <2>3. CASE request.name \in {"acquire", "write", "read"}
    BY <2>1, <2>3 DEF Session, Held, Taking, Z80Runs, Active
  <2> QED BY <2>1, <2>2, <2>3 DEF Session
<1> QED BY <1>1, BusInvInit, BusInvNext, PTL DEF Spec

---------------------------------------------------------------------------
(* The hold on the Z80, with raw commands on any line but RESET.           *)

Keeps == RESET \notin plan.pins /\ plan.maxboots = 1

\* An acquire that has yet to lower RESET.
Lowering ==
  /\ program # <<>> /\ Head(program) = set_pin_low(RESET)
  /\ \A o \in Left(Tail(program)) : o.pin # RESET

\* What is never on the way to RESET, and what the client may believe of it.
Aside ==
  /\ \A o \in Left(program) : o.pin # RESET
  /\ g_bus_state = "acquired" => RESET \notin high

\* RESET stays an output from power-on, and is low while the client has the
\* bus or is about to be told so.
Keeping ==
  /\ boots = 1
  /\ \/ RESET \in output
     \/ request.name = "boot" /\ cfg_pin_as_output(RESET) \in Left(program)
  /\ \/ /\ request.name = "boot" /\ g_bus_state = "unknown"
        /\ \A o \in Left(program) : o.do \in {"output", "high"}
     \/ /\ request.name = "release"
        /\ program = <<>> => g_bus_state = "released"
     \/ /\ request.name = "acquire" /\ g_bus_state # "unknown"
        /\ Held \/ Lowering
     \/ /\ request.name \in {"write", "read", "SET_HI", "SET_LO", "GET"}
        /\ g_bus_state # "unknown" /\ Aside

KeepInv == TypeOK /\ Releasing /\ (Keeps => Keeping)

\* A raw command touches its own pin only.
LEMMA RawPin ==
  ASSUME NEW subcmd \in {"SET_HI", "SET_LO", "GET"}, NEW pin \in AllPins
  PROVE  \A o \in Left(raw(subcmd, pin)) : o.pin = pin
<1>1. 1 .. 2 = {1, 2} /\ 1 .. 1 = {1}
  OBVIOUS
<1>2. \A a, b : Left(<<a, b>>) = {a, b} /\ Left(<<a>>) = {a}
  BY <1>1 DEF Left
<1>3. /\ cfg_pin_as_output(pin).pin = pin /\ cfg_pin_as_input(pin).pin = pin
      /\ set_pin_high(pin).pin = pin /\ set_pin_low(pin).pin = pin
  BY DEF cfg_pin_as_output, cfg_pin_as_input, set_pin_high, set_pin_low
<1>4. CASE subcmd = "SET_HI"
  BY <1>2, <1>3, <1>4 DEF raw
<1>5. CASE subcmd = "SET_LO"
  BY <1>2, <1>3, <1>5 DEF raw
<1>6. CASE subcmd = "GET"
  BY <1>2, <1>3, <1>6 DEF raw
<1> QED BY <1>4, <1>5, <1>6

\* Every pin operation keeps it.
LEMMA KeepingStep == KeepInv /\ Keeps /\ Step => Keeping'
<1> SUFFICES ASSUME KeepInv, Keeps, Step PROVE Keeping'
  OBVIOUS
<1> DEFINE op == Head(program)
<1>0. TypeOK /\ Releasing /\ Keeping
  BY DEF KeepInv
<1>1. /\ program # <<>> /\ program' = Tail(program)
      /\ Left(program) = {op} \cup Left(program')
      /\ g_bus_state' = IF program' = <<>> THEN AfterResponse ELSE g_bus_state
      /\ UNCHANGED <<request, plan, boots>>
  BY <1>0, StepFacts
<1>2. output' = CASE op.do = "output" -> output \cup {op.pin}
                 [] op.do = "input"  -> output \ {op.pin}
                 [] OTHER            -> output
  BY <1>0, StepFacts
<1>3. high' = CASE op.do = "high" -> high \cup {op.pin}
               [] op.do = "low"  -> high \ {op.pin}
               [] OTHER          -> high
  BY <1>0, StepFacts
<1> HIDE DEF op
<1>4. boots' = 1
  BY <1>0, <1>1 DEF Keeping
<1>5. CASE request.name = "boot"
  <2>1. op.do \in {"output", "high"} /\ \A o \in Left(program') : o.do \in {"output", "high"}
    BY <1>0, <1>1, <1>5 DEF Keeping
  <2>2. g_bus_state' = "unknown"
    BY <1>0, <1>1, <1>5 DEF Keeping, AfterResponse
  <2>3. RESET \in output' \/ cfg_pin_as_output(RESET) \in Left(program')
    <3>1. RESET \in output => RESET \in output'
      BY <1>2, <2>1
    <3>2. op = cfg_pin_as_output(RESET) => RESET \in output'
      BY <1>2 DEF cfg_pin_as_output
    <3> QED BY <1>0, <1>1, <3>1, <3>2 DEF Keeping
  <2> QED BY <1>1, <1>4, <1>5, <2>1, <2>2, <2>3 DEF Keeping
<1>6. CASE request.name = "release"
  <2>1. op.do = "high" \/ op.pin # RESET
    <3>1. op = program[1] /\ Len(program) \in Nat \ {0} /\ 1 \in 1 .. Len(program)
      BY <1>0, StepFacts DEF op
    <3> QED BY <1>0, <1>6, <3>1 DEF Releasing
  <2>2. RESET \in output'
    BY <1>0, <1>2, <1>6, <2>1 DEF Keeping
  <2>3. program' = <<>> => g_bus_state' = "released"
    BY <1>1, <1>6 DEF AfterResponse
  <2> QED BY <1>1, <1>4, <1>6, <2>2, <2>3 DEF Keeping
<1>7. CASE request.name = "acquire"
  <2>1. g_bus_state # "unknown" /\ RESET \in output /\ (Held \/ Lowering)
    BY <1>0, <1>7 DEF Keeping
  <2>2. g_bus_state' # "unknown"
    BY <1>1, <1>7, <2>1 DEF AfterResponse
  <2>3. RESET \in output' /\ Held'
    <3>1. CASE Held
      <4>1. op.pin # RESET /\ \A o \in Left(program') : o.pin # RESET
        BY <1>1, <3>1 DEF Held
      <4> QED BY <1>2, <1>3, <2>1, <3>1, <4>1 DEF Held
    <3>2. CASE Lowering
      <4>1. op = set_pin_low(RESET) /\ \A o \in Left(program') : o.pin # RESET
        BY <1>1, <3>2 DEF Lowering, op
      <4> QED BY <1>2, <1>3, <2>1, <4>1 DEF Held, set_pin_low
    <3> QED BY <2>1, <3>1, <3>2
  <2> QED BY <1>1, <1>4, <1>7, <2>2, <2>3 DEF Keeping
<1>8. CASE request.name \in {"write", "read", "SET_HI", "SET_LO", "GET"}
  <2>1. g_bus_state # "unknown" /\ RESET \in output /\ Aside
    BY <1>0, <1>8 DEF Keeping
  <2>2. g_bus_state' = g_bus_state
    BY <1>1, <1>8 DEF AfterResponse
  <2>3. op.pin # RESET /\ \A o \in Left(program') : o.pin # RESET
    BY <1>1, <2>1 DEF Aside
  <2>4. RESET \in output' /\ (RESET \notin high => RESET \notin high')
    BY <1>2, <1>3, <2>1, <2>3
  <2> QED BY <1>1, <1>4, <1>8, <2>1, <2>2, <2>3, <2>4 DEF Keeping, Aside
<1> QED BY <1>0, <1>5, <1>6, <1>7, <1>8 DEF Keeping

\* Between two requests RESET is driven, and low if the client has the bus.
LEMMA KeepingRest ==
  ASSUME Keeping, program = <<>>
  PROVE  /\ RESET \in output
         /\ g_bus_state = "acquired" => RESET \notin high
<1>1. \A o : o \notin Left(program)
  BY DEF Left
<1> QED BY <1>1 DEF Keeping, Held, Lowering, Aside

\* Every step keeps the invariant.
LEMMA KeepInvNext == KeepInv /\ [Next]_vars => KeepInv'
<1> SUFFICES ASSUME KeepInv, [Next]_vars PROVE KeepInv'
  OBVIOUS
<1>1. TypeOK' /\ Releasing'
  BY TypesNext, ReleasingNext DEF KeepInv
<1> SUFFICES ASSUME Keeps PROVE Keeping'
  <2>1. plan' = plan
    BY DEF Next, Step, Z80Write, Boot, cmd_acquire, cmd_release, cmd_wr, cmd_rd, cmd_pin, Send, vars
  <2> QED BY <1>1, <2>1 DEF KeepInv, Keeps
<1>2. Keeping
  BY DEF KeepInv
<1>3. CASE Step
  BY <1>3, KeepingStep
<1>4. CASE Z80Write
  BY <1>2, <1>4 DEF Z80Write, Keeping, Held, Lowering, Aside
<1>5. CASE Boot
  BY <1>2, <1>5 DEF Boot, Keeping, Keeps
<1>6. CASE cmd_acquire
  <2>1. /\ program = <<>> /\ g_bus_state # "unknown" /\ program' = bc80_bus_acquire
        /\ request' = [name |-> "acquire"] /\ UNCHANGED <<output, high, g_bus_state, plan, boots>>
    BY <1>6 DEF cmd_acquire, Send
  <2>2. RESET \in output
    BY <1>2, <2>1, KeepingRest
  <2>3. Lowering'
    BY <2>1, AcquireFacts DEF Lowering
  <2> QED BY <1>2, <2>1, <2>2, <2>3 DEF Keeping
<1>7. CASE cmd_release
  <2>1. /\ program = <<>> /\ program' = bc80_bus_release /\ request' = [name |-> "release"]
        /\ UNCHANGED <<output, high, g_bus_state, plan, boots>>
    BY <1>7 DEF cmd_release, Send
  <2>2. RESET \in output
    BY <1>2, <2>1, KeepingRest
  <2> QED BY <1>2, <2>1, <2>2, ReleaseFacts DEF Keeping
<1>8. ASSUME NEW command, NEW operations, Send(command, operations),
             g_bus_state # "unknown",
             command.name \in {"write", "read", "SET_HI", "SET_LO", "GET"},
             \A o \in Left(operations) : o.pin # RESET
      PROVE  Keeping'
  <2>1. /\ program = <<>> /\ program' = operations /\ request' = command
        /\ UNCHANGED <<output, high, g_bus_state, plan, boots>>
    BY <1>8 DEF Send
  <2>2. RESET \in output /\ (g_bus_state = "acquired" => RESET \notin high)
    BY <1>2, <2>1, KeepingRest
  <2>3. Aside'
    BY <1>8, <2>1, <2>2 DEF Aside
  <2> QED BY <1>2, <1>8, <2>1, <2>2, <2>3 DEF Keeping
<1>9. CASE cmd_wr
  BY <1>8, <1>9, ReadWriteFacts DEF cmd_wr
<1>10. CASE cmd_rd
  <2>1. {} \in Byte
    BY DEF Byte
  <2> QED BY <1>8, <1>10, <2>1, ReadWriteFacts DEF cmd_rd
<1>11. CASE cmd_pin
  <2>1. PICK pin \in plan.pins, subcmd \in {"SET_HI", "SET_LO", "GET"} :
               g_bus_state # "unknown" /\ Send([name |-> subcmd], raw(subcmd, pin))
    BY <1>11 DEF cmd_pin
  <2>2. pin # RESET /\ pin \in AllPins
    BY <1>1, PlanAssumption DEF Keeps, KeepInv, TypeOK
  <2>3. \A o \in Left(raw(subcmd, pin)) : o.pin # RESET
    BY <2>2, RawPin
  <2> QED BY <1>8, <2>1, <2>3
<1>12. CASE UNCHANGED vars
  BY <1>2, <1>12 DEF vars, Keeping, Held, Lowering, Aside
<1> QED BY <1>3, <1>4, <1>5, <1>6, <1>7, <1>9, <1>10, <1>11, <1>12 DEF Next

\* The Z80 is in reset whenever the client believes that it has the bus (cmd_wr,
\* cmd_rd), whatever raw commands on other lines than RESET have done, while
\* the board keeps its power.
THEOREM AcquiredIsHeld == Spec => []HeldInReset
<1>1. Init => KeepInv
  <2> SUFFICES ASSUME Init PROVE KeepInv
    OBVIOUS
  <2>1. Keeping
    BY BootFacts DEF Init, Keeping
  <2> QED BY <2>1, TypesInit DEF Init, KeepInv, Releasing
<1>2. KeepInv => HeldInReset
  BY KeepingRest DEF KeepInv, Keeps, HeldInReset, AcquiredMeansHeld, Z80Runs, Active
<1> QED BY <1>1, <1>2, KeepInvNext, PTL DEF Spec

---------------------------------------------------------------------------
(* The memory accesses.  In a plain session the debugger and the RAM never *)
(* drive the data lines at once, the RAM changes by write commands only,   *)
(* and a command that is done has done what it says.  A read or a write is *)
(* a sequence of pin operations in an order (Rank) that never goes back;   *)
(* what is true of the pins follows from the ranks of the operations       *)
(* ahead.                                                                  *)

Strobes == {MREQ, RD, WR}

\* What a memory access does in which order; idle is the strobe it leaves high.
Rank(o, idle) ==
  CASE o.do \in {"output", "input"}               -> 1
    [] o.do = "low" /\ o.pin[1] = "A"             -> 2
    [] o.do \in {"high", "leave"} /\ o.pin[1] = "A" -> 3
    [] o.do = "low" /\ o.pin[1] = "D"             -> 4
    [] o.do \in {"high", "leave"} /\ o.pin[1] = "D" -> 5
    [] o = set_pin_high(idle)                     -> 6
    [] o.do = "low" /\ o.pin \in {RD, WR}         -> 7
    [] o = set_pin_low(MREQ)                      -> 8
    [] o.do = "sample"                            -> 9
    [] OTHER                                      -> 10

\* The operations of s are in the order of their ranks, which are in R.
Sorted(s, idle) ==
  \A i, j \in 1 .. Len(s) : i <= j => Rank(s[i], idle) <= Rank(s[j], idle)

From(s, n, idle) == \A o \in Left(s) : n <= Rank(o, idle)

Within(s, R, idle) ==
  /\ s \in Seq(Ops) /\ Sorted(s, idle)
  /\ \A o \in Left(s) : Rank(o, idle) \in R

Below(R, Q) == \A m \in R, n \in Q : m <= n

\* The operations of a read and of a write.
BusOps(bus, value) ==
  {set_pin_low(p) : p \in Pins(bus)}
    \cup {IF p[2] \in value THEN set_pin_high(p) ELSE leave(p) : p \in Pins(bus)}

ReadOps(addr) ==
  {cfg_pin_as_input(p) : p \in Pins(BUS_D)} \cup BusOps(BUS_A, addr)
    \cup {set_pin_high(WR), set_pin_low(RD), set_pin_low(MREQ)}
    \cup {sample(p) : p \in Pins(BUS_D)}
    \cup {set_pin_high(MREQ), set_pin_high(RD)}

WriteOps(addr, byte) ==
  {cfg_pin_as_output(p) : p \in Pins(BUS_D)} \cup BusOps(BUS_A, addr)
    \cup BusOps(BUS_D, byte)
    \cup {set_pin_high(RD), set_pin_low(WR), set_pin_low(MREQ)}
    \cup {set_pin_high(MREQ), set_pin_high(WR)}

---------------------------------------------------------------------------
(* The invariant.                                                          *)

\* Every line of the bus has its bit of value, or will have when the
\* operations ahead are done.
Settles(bus, value) ==
  \A p \in Pins(bus) :
    /\ p[2] \in value => \/ set_pin_high(p) \in Left(program)
                         \/ p \in high /\ set_pin_low(p) \notin Left(program)
    /\ p[2] \notin value => set_pin_low(p) \in Left(program) \/ p \notin high

\* A strobe that has been lowered is raised again in the end.
Restored(s) ==
  \/ set_pin_high(s) \in Left(program)
  \/ s \in high /\ set_pin_low(s) \notin Left(program)

\* A strobe is low from its operation until the data have been moved.
Lowered(s, idle) ==
  \/ set_pin_low(s) \in Left(program)
  \/ s \notin high
  \/ From(program, 10, idle)

\* What the debugger drives throughout an access.
Driven == Pins(BUS_A) \cup Strobes

Reading(addr) ==
  /\ Left(program) \subseteq ReadOps(addr) /\ Sorted(program, WR)
  /\ Driven \subseteq output /\ WR \in high
  /\ Settles(BUS_A, addr)
  /\ \A p \in output \cap Pins(BUS_D) : cfg_pin_as_input(p) \in Left(program)
  /\ RD \notin high => From(program, 7, WR)
  /\ \A s \in {MREQ, RD} : Restored(s) /\ Lowered(s, WR)
  /\ result \subseteq ram[addr]
  /\ \A i \in ram[addr] : i \in result \/ sample(<<"D", i>>) \in Left(program)

Writing(addr, byte) ==
  /\ Left(program) \subseteq WriteOps(addr, byte) /\ Sorted(program, RD)
  /\ Driven \subseteq output /\ RD \in high
  /\ Settles(BUS_A, addr) /\ Settles(BUS_D, byte)
  /\ \A p \in Pins(BUS_D) : p \in output \/ cfg_pin_as_output(p) \in Left(program)
  /\ MREQ \notin high => From(program, 8, RD)
  /\ \A s \in {MREQ, WR} : Restored(s)
  /\ Lowered(WR, RD)
  /\ set_pin_low(MREQ) \in Left(program) \/ ram[addr] = byte

\* No other command lowers a strobe, and an acquire takes the lines.
Access ==
  /\ request.name = "boot" =>
       \A s \in Strobes : s \in high \/ set_pin_high(s) \in Left(program)
  /\ request.name \in {"acquire", "release"} => Strobes \subseteq high
  /\ request.name \in {"boot", "acquire", "release"} =>
       \A o \in Left(program) : o.do = "low" => o.pin = RESET
  /\ request.name = "acquire" =>
       /\ \A o \in Left(program) : o.do # "input"
       /\ \A p \in Driven : p \in output \/ cfg_pin_as_output(p) \in Left(program)
  /\ request.name = "read" => request.addr \in Address /\ Reading(request.addr)
  /\ request.name = "write" =>
       /\ request.addr \in Address /\ request.byte \in Byte
       /\ Writing(request.addr, request.byte)

MemoryInv == Plain => Access

---------------------------------------------------------------------------
(* Ranks.                                                                  *)

\* The kinds of pins.
LEMMA KindFacts ==
  /\ \A p \in Pins(BUS_A) : p[1] = "A" /\ p[2] \in 1 .. AWidth /\ p = <<"A", p[2]>>
  /\ \A p \in Pins(BUS_D) : p[1] = "D" /\ p[2] \in 1 .. DWidth /\ p = <<"D", p[2]>>
  /\ MREQ[1] = "MREQ" /\ RD[1] = "RD" /\ WR[1] = "WR"
  /\ MREQ # RD /\ MREQ # WR /\ RD # WR /\ BUS_A # BUS_D
<1>1. \A i \in 1 .. AWidth : BUS_A[i] = <<"A", i>>
  BY DEF BUS_A
<1>2. \A i \in 1 .. DWidth : BUS_D[i] = <<"D", i>>
  BY DEF BUS_D
<1>3. DOMAIN BUS_A = 1 .. AWidth /\ DOMAIN BUS_D = 1 .. DWidth
  BY DEF BUS_A, BUS_D
<1>4. MREQ[1] = "MREQ" /\ RD[1] = "RD" /\ WR[1] = "WR"
  BY DEF MREQ, RD, WR
<1>5. ASSUME NEW p \in Pins(BUS_A)
      PROVE  p[1] = "A" /\ p[2] \in 1 .. AWidth /\ p = <<"A", p[2]>>
  <2>1. PICK i \in 1 .. AWidth : p = <<"A", i>>
    BY <1>1, <1>3 DEF Pins
  <2> QED BY <2>1
<1>6. ASSUME NEW p \in Pins(BUS_D)
      PROVE  p[1] = "D" /\ p[2] \in 1 .. DWidth /\ p = <<"D", p[2]>>
  <2>1. PICK i \in 1 .. DWidth : p = <<"D", i>>
    BY <1>2, <1>3 DEF Pins
  <2> QED BY <2>1
<1>7. MREQ # RD /\ MREQ # WR /\ RD # WR
  BY <1>4
<1>8. BUS_A # BUS_D
  <2>1. BUS_A[1] = <<"A", 1>> /\ BUS_D[1] = <<"D", 1>>
    BY <1>1, <1>2, WidthAssumption
  <2>2. <<"A", 1>>[1] # <<"D", 1>>[1]
    OBVIOUS
  <2> QED BY <2>1, <2>2
<1> QED BY <1>4, <1>5, <1>6, <1>7, <1>8

\* The place of each operation of an access.
LEMMA RankFacts ==
  ASSUME NEW idle \in {RD, WR}
  PROVE  /\ \A p : Rank(cfg_pin_as_output(p), idle) = 1 /\ Rank(cfg_pin_as_input(p), idle) = 1
         /\ \A p \in Pins(BUS_A) : /\ Rank(set_pin_low(p), idle) = 2
                                   /\ Rank(set_pin_high(p), idle) = 3
                                   /\ Rank(leave(p), idle) = 3
         /\ \A p \in Pins(BUS_D) : /\ Rank(set_pin_low(p), idle) = 4
                                   /\ Rank(set_pin_high(p), idle) = 5
                                   /\ Rank(leave(p), idle) = 5
         /\ \A p \in Pins(BUS_D) : Rank(sample(p), idle) = 9
         /\ Rank(set_pin_high(idle), idle) = 6
         /\ Rank(set_pin_low(RD), idle) = 7 /\ Rank(set_pin_low(WR), idle) = 7
         /\ Rank(set_pin_low(MREQ), idle) = 8
         /\ \A s \in Strobes \ {idle} : Rank(set_pin_high(s), idle) = 10
<1> USE KindFacts
<1>1. \A p : Rank(cfg_pin_as_output(p), idle) = 1 /\ Rank(cfg_pin_as_input(p), idle) = 1
  BY DEF Rank, cfg_pin_as_output, cfg_pin_as_input, set_pin_high, set_pin_low
<1>2. \A p \in Pins(BUS_A) \cup Pins(BUS_D) :
        /\ Rank(set_pin_low(p), idle) = IF p[1] = "A" THEN 2 ELSE 4
        /\ Rank(set_pin_high(p), idle) = IF p[1] = "A" THEN 3 ELSE 5
        /\ Rank(leave(p), idle) = IF p[1] = "A" THEN 3 ELSE 5
  BY DEF Rank, set_pin_low, set_pin_high, leave
<1>3. \A p \in Pins(BUS_D) : Rank(sample(p), idle) = 9
  BY DEF Rank, sample, set_pin_low, set_pin_high
<1>4. Rank(set_pin_high(idle), idle) = 6
  BY DEF Rank, set_pin_high, set_pin_low
<1>5. Rank(set_pin_low(RD), idle) = 7 /\ Rank(set_pin_low(WR), idle) = 7
  BY DEF Rank, set_pin_low, set_pin_high
<1>6. Rank(set_pin_low(MREQ), idle) = 8
  BY DEF Rank, set_pin_low, set_pin_high
<1>7. \A s \in Strobes \ {idle} : Rank(set_pin_high(s), idle) = 10
  BY DEF Rank, set_pin_low, set_pin_high, Strobes
<1>8. "A" # "D"
  OBVIOUS
<1> QED BY <1>1, <1>2, <1>3, <1>4, <1>5, <1>6, <1>7, <1>8

LEMMA RankType == \A o, idle : Rank(o, idle) \in 1 .. 10
  BY DEF Rank

\* A sequence of operations of one rank, and one followed by another.
LEMMA WithinOne ==
  ASSUME NEW s \in Seq(Ops), NEW n \in 1 .. 10, NEW idle,
         \A o \in Left(s) : Rank(o, idle) = n
  PROVE  Within(s, {n}, idle)
  BY DEF Within, Sorted, Left

LEMMA WithinConcat ==
  ASSUME NEW s, NEW t, NEW idle, NEW R, NEW Q,
         Within(s, R, idle), Within(t, Q, idle), Below(R, Q)
  PROVE  /\ Within(s \o t, R \cup Q, idle)
         /\ Left(s \o t) = Left(s) \cup Left(t)
<1>1. s \in Seq(Ops) /\ t \in Seq(Ops)
  BY DEF Within
<1>2. s \o t \in Seq(Ops) /\ Left(s \o t) = Left(s) \cup Left(t)
  BY <1>1, LeftConcat
<1>3. \A o \in Left(s) : Rank(o, idle) \in R
  BY DEF Within
<1>4. \A o \in Left(t) : Rank(o, idle) \in Q
  BY DEF Within
<1>5. \A o \in Left(s \o t) : Rank(o, idle) \in R \cup Q
  BY <1>2, <1>3, <1>4
<1>6. /\ Len(s \o t) = Len(s) + Len(t) /\ Len(s) \in Nat /\ Len(t) \in Nat
      /\ \A i \in 1 .. Len(s) + Len(t) :
           (s \o t)[i] = IF i <= Len(s) THEN s[i] ELSE t[i - Len(s)]
  BY <1>1, ConcatProperties, LenProperties
<1>7. ASSUME NEW i \in 1 .. Len(s \o t), NEW j \in 1 .. Len(s \o t), i <= j
      PROVE  Rank((s \o t)[i], idle) <= Rank((s \o t)[j], idle)
  <2>1. CASE j <= Len(s)
    <3>1. /\ i \in 1 .. Len(s) /\ j \in 1 .. Len(s)
          /\ (s \o t)[i] = s[i] /\ (s \o t)[j] = s[j]
      BY <1>6, <1>7, <2>1
    <3> QED BY <1>7, <3>1 DEF Within, Sorted
  <2>2. CASE i <= Len(s) /\ ~(j <= Len(s))
    <3>1. /\ i \in 1 .. Len(s) /\ j - Len(s) \in 1 .. Len(t)
          /\ (s \o t)[i] = s[i] /\ (s \o t)[j] = t[j - Len(s)]
      BY <1>6, <1>7, <2>2
    <3>2. Rank(s[i], idle) \in R /\ Rank(t[j - Len(s)], idle) \in Q
      BY <1>3, <1>4, <3>1 DEF Left
    <3> QED BY <3>1, <3>2 DEF Below
  <2>3. CASE ~(i <= Len(s))
    <3>1. /\ i - Len(s) \in 1 .. Len(t) /\ j - Len(s) \in 1 .. Len(t)
          /\ i - Len(s) <= j - Len(s)
          /\ (s \o t)[i] = t[i - Len(s)] /\ (s \o t)[j] = t[j - Len(s)]
      BY <1>6, <1>7, <2>3
    <3> QED BY <3>1 DEF Within, Sorted
  <2> QED BY <2>1, <2>2, <2>3
<1> QED BY <1>2, <1>5, <1>7 DEF Within, Sorted

\* A bus is lowered and then raised.
LEMMA SetProgram ==
  ASSUME NEW idle \in {RD, WR}, NEW value, NEW bus \in {BUS_A, BUS_D}
  PROVE  /\ Within(Set(bus, value), IF bus = BUS_A THEN {2, 3} ELSE {4, 5}, idle)
         /\ Left(Set(bus, value)) = BusOps(bus, value)
<1> DEFINE Raise(p) == IF p[2] \in value THEN set_pin_high(p) ELSE leave(p)
           s == Each(set_pin_low, bus)
           t == Each(Raise, bus)
           n == IF bus = BUS_A THEN 2 ELSE 4
           m == IF bus = BUS_A THEN 3 ELSE 5
<1>1. bus \in Seq(AllPins) /\ Left(bus) = Pins(bus)
  BY PinFacts
<1>2. BUS_A # BUS_D
  BY KindFacts
<1>3. s \in Seq(Ops) /\ Left(s) = {set_pin_low(p) : p \in Pins(bus)}
  BY <1>1, EachFacts
<1>4. DOMAIN bus = 1 .. Len(bus) /\ Len(bus) \in Nat /\ \A i \in 1 .. Len(bus) : bus[i] \in AllPins
  BY <1>1, LenProperties
<1>5. \A p \in AllPins : Raise(p) \in Ops
  BY DEF Ops, set_pin_high, leave
<1>6. \A p \in Pins(bus) : Rank(Raise(p), idle) = m /\ Rank(set_pin_low(p), idle) = n
  BY <1>2, RankFacts
<1> HIDE DEF Raise
<1>7. [i \in 1 .. Len(bus) |-> Raise(bus[i])] \in Seq(Ops)
  BY <1>4, <1>5
<1>8. Left([i \in 1 .. Len(bus) |-> Raise(bus[i])]) = {Raise(p) : p \in Pins(bus)}
  BY <1>1, <1>4 DEF Left
<1>9. t \in Seq(Ops) /\ Left(t) = {Raise(p) : p \in Pins(bus)}
  BY <1>4, <1>7, <1>8 DEF Each
<1>10. Set(bus, value) = s \o t
  BY DEF Set, Raise
<1>11. n \in 1 .. 10 /\ m \in 1 .. 10 /\ Below({n}, {m})
  BY DEF Below
<1>12. {n} \cup {m} = IF bus = BUS_A THEN {2, 3} ELSE {4, 5}
  OBVIOUS
<1> HIDE DEF s, t, n, m
<1>13. Within(s, {n}, idle) /\ Within(t, {m}, idle)
  BY <1>3, <1>6, <1>9, <1>11, WithinOne
<1>14. Within(s \o t, {n} \cup {m}, idle) /\ Left(s \o t) = Left(s) \cup Left(t)
  BY <1>11, <1>13, WithinConcat, Zenon
<1> QED BY <1>3, <1>9, <1>10, <1>12, <1>14 DEF BusOps, Raise

\* The strobes.
LEMMA StrobeProgram ==
  ASSUME NEW idle \in {RD, WR}, NEW busy \in {RD, WR}, idle # busy
  PROVE  /\ Within(<<set_pin_high(idle), set_pin_low(busy), set_pin_low(MREQ)>>, {6, 7, 8}, idle)
         /\ Left(<<set_pin_high(idle), set_pin_low(busy), set_pin_low(MREQ)>>)
              = {set_pin_high(idle), set_pin_low(busy), set_pin_low(MREQ)}
         /\ Within(<<set_pin_high(MREQ), set_pin_high(busy)>>, {10}, idle)
         /\ Left(<<set_pin_high(MREQ), set_pin_high(busy)>>)
              = {set_pin_high(MREQ), set_pin_high(busy)}
<1> DEFINE a == set_pin_high(idle)
           b == set_pin_low(busy)
           c == set_pin_low(MREQ)
           d == set_pin_high(MREQ)
           e == set_pin_high(busy)
<1>1. {a, b, c, d, e} \subseteq Ops
  BY PinFacts DEF Ops, set_pin_high, set_pin_low
<1>2. /\ Rank(a, idle) = 6 /\ Rank(b, idle) = 7 /\ Rank(c, idle) = 8
      /\ Rank(d, idle) = 10 /\ Rank(e, idle) = 10
  BY RankFacts, KindFacts DEF Strobes
<1> HIDE DEF a, b, c, d, e
<1>3. 1 .. 3 = {1, 2, 3} /\ 1 .. 2 = {1, 2}
  OBVIOUS
<1>4. Left(<<a, b, c>>) = {a, b, c} /\ Left(<<d, e>>) = {d, e}
  BY <1>3 DEF Left
<1>5. <<a, b, c>> \in Seq(Ops) /\ <<d, e>> \in Seq(Ops)
  BY <1>1
<1>6. Sorted(<<a, b, c>>, idle)
  BY <1>2, <1>3 DEF Sorted
<1>7. Sorted(<<d, e>>, idle)
  BY <1>2, <1>3 DEF Sorted
<1> QED BY <1>2, <1>4, <1>5, <1>6, <1>7 DEF Within, a, b, c, d, e

\* A read: the data lines become inputs, the address is set, RD and MREQ go
\* low, the data are sampled and the strobes go high.
LEMMA ReadProgram ==
  ASSUME NEW addr \in Address
  PROVE  Sorted(bc80_read_mem(addr), WR) /\ Left(bc80_read_mem(addr)) = ReadOps(addr)
<1> DEFINE s1 == Each(cfg_pin_as_input, BUS_D)
           s2 == Set(BUS_A, addr)
           s3 == <<set_pin_high(WR), set_pin_low(RD), set_pin_low(MREQ)>>
           s4 == Each(sample, BUS_D)
           s5 == <<set_pin_high(MREQ), set_pin_high(RD)>>
           s12 == s1 \o s2
           s13 == s12 \o s3
           s14 == s13 \o s4
           s15 == s14 \o s5
<1>1. /\ s1 \in Seq(Ops) /\ Left(s1) = {cfg_pin_as_input(p) : p \in Pins(BUS_D)}
      /\ s4 \in Seq(Ops) /\ Left(s4) = {sample(p) : p \in Pins(BUS_D)}
  BY PinFacts, EachFacts
<1>2. Within(s2, {2, 3}, WR) /\ Left(s2) = BusOps(BUS_A, addr)
  BY SetProgram
<1>3. /\ Within(s3, {6, 7, 8}, WR) /\ Left(s3) = {set_pin_high(WR), set_pin_low(RD), set_pin_low(MREQ)}
      /\ Within(s5, {10}, WR) /\ Left(s5) = {set_pin_high(MREQ), set_pin_high(RD)}
  BY StrobeProgram, KindFacts
<1>4. bc80_read_mem(addr) = s15
  BY DEF bc80_read_mem
<1> HIDE DEF s1, s2, s3, s4, s5
<1>5. \A o \in Left(s1) : Rank(o, WR) = 1
  BY <1>1, RankFacts
<1>6. \A o \in Left(s4) : Rank(o, WR) = 9
  BY <1>1, RankFacts
<1>7. Within(s1, {1}, WR) /\ Within(s4, {9}, WR)
  BY <1>1, <1>5, <1>6, WithinOne
<1>8. /\ Below({1}, {2, 3}) /\ Below({1} \cup {2, 3}, {6, 7, 8})
      /\ Below(({1} \cup {2, 3}) \cup {6, 7, 8}, {9})
      /\ Below((({1} \cup {2, 3}) \cup {6, 7, 8}) \cup {9}, {10})
  BY DEF Below
<1>9. Within(s12, {1} \cup {2, 3}, WR) /\ Left(s12) = Left(s1) \cup Left(s2)
  BY <1>2, <1>7, <1>8, WithinConcat, Zenon
<1> HIDE DEF s12
<1>10. Within(s13, ({1} \cup {2, 3}) \cup {6, 7, 8}, WR) /\ Left(s13) = Left(s12) \cup Left(s3)
  BY <1>3, <1>8, <1>9, WithinConcat, Zenon
<1> HIDE DEF s13
<1>11. Within(s14, (({1} \cup {2, 3}) \cup {6, 7, 8}) \cup {9}, WR)
       /\ Left(s14) = Left(s13) \cup Left(s4)
  BY <1>7, <1>8, <1>10, WithinConcat, Zenon
<1> HIDE DEF s14
<1>12. Within(s15, ((({1} \cup {2, 3}) \cup {6, 7, 8}) \cup {9}) \cup {10}, WR)
       /\ Left(s15) = Left(s14) \cup Left(s5)
  BY <1>3, <1>8, <1>11, WithinConcat, Zenon
<1> HIDE DEF s15
<1>13. Left(s15) = ReadOps(addr)
  BY <1>1, <1>2, <1>3, <1>9, <1>10, <1>11, <1>12 DEF ReadOps
<1> QED BY <1>4, <1>12, <1>13 DEF Within

\* A write: the data lines become outputs, address and data are set, WR and
\* MREQ go low and high again.
LEMMA WriteProgram ==
  ASSUME NEW addr \in Address, NEW byte \in Byte
  PROVE  /\ Sorted(bc80_write_mem(addr, byte), RD)
         /\ Left(bc80_write_mem(addr, byte)) = WriteOps(addr, byte)
<1> DEFINE s1 == Each(cfg_pin_as_output, BUS_D)
           s2 == Set(BUS_A, addr)
           s3 == Set(BUS_D, byte)
           s4 == <<set_pin_high(RD), set_pin_low(WR), set_pin_low(MREQ)>>
           s5 == <<set_pin_high(MREQ), set_pin_high(WR)>>
           s12 == s1 \o s2
           s13 == s12 \o s3
           s14 == s13 \o s4
           s15 == s14 \o s5
<1>1. s1 \in Seq(Ops) /\ Left(s1) = {cfg_pin_as_output(p) : p \in Pins(BUS_D)}
  BY PinFacts, EachFacts
<1>2. /\ Within(s2, {2, 3}, RD) /\ Left(s2) = BusOps(BUS_A, addr)
      /\ Within(s3, {4, 5}, RD) /\ Left(s3) = BusOps(BUS_D, byte)
  BY KindFacts, SetProgram
<1>3. /\ Within(s4, {6, 7, 8}, RD) /\ Left(s4) = {set_pin_high(RD), set_pin_low(WR), set_pin_low(MREQ)}
      /\ Within(s5, {10}, RD) /\ Left(s5) = {set_pin_high(MREQ), set_pin_high(WR)}
  BY StrobeProgram, KindFacts
<1>4. bc80_write_mem(addr, byte) = s15
  BY DEF bc80_write_mem
<1> HIDE DEF s1, s2, s3, s4, s5
<1>5. \A o \in Left(s1) : Rank(o, RD) = 1
  BY <1>1, RankFacts
<1>6. Within(s1, {1}, RD)
  BY <1>1, <1>5, WithinOne
<1>7. /\ Below({1}, {2, 3}) /\ Below({1} \cup {2, 3}, {4, 5})
      /\ Below(({1} \cup {2, 3}) \cup {4, 5}, {6, 7, 8})
      /\ Below((({1} \cup {2, 3}) \cup {4, 5}) \cup {6, 7, 8}, {10})
  BY DEF Below
<1>8. Within(s12, {1} \cup {2, 3}, RD) /\ Left(s12) = Left(s1) \cup Left(s2)
  BY <1>2, <1>6, <1>7, WithinConcat, Zenon
<1> HIDE DEF s12
<1>9. Within(s13, ({1} \cup {2, 3}) \cup {4, 5}, RD) /\ Left(s13) = Left(s12) \cup Left(s3)
  BY <1>2, <1>7, <1>8, WithinConcat, Zenon
<1> HIDE DEF s13
<1>10. Within(s14, (({1} \cup {2, 3}) \cup {4, 5}) \cup {6, 7, 8}, RD)
       /\ Left(s14) = Left(s13) \cup Left(s4)
  BY <1>3, <1>7, <1>9, WithinConcat, Zenon
<1> HIDE DEF s14
<1>11. Within(s15, ((({1} \cup {2, 3}) \cup {4, 5}) \cup {6, 7, 8}) \cup {10}, RD)
       /\ Left(s15) = Left(s14) \cup Left(s5)
  BY <1>3, <1>7, <1>10, WithinConcat, Zenon
<1> HIDE DEF s15
<1>12. Left(s15) = WriteOps(addr, byte)
  BY <1>1, <1>2, <1>3, <1>8, <1>9, <1>10, <1>11 DEF WriteOps
<1> QED BY <1>4, <1>11, <1>12 DEF Within

---------------------------------------------------------------------------
(* A step of an access.                                                    *)

\* Lines that are all driven carry what is on them.
Carries(bus, value, o, h) == \A p \in Pins(bus) : p \in o /\ (p \in h <=> p[2] \in value)

LevelsWith(bus, o, h) ==
  {v \in SUBSET DOMAIN bus :
     \A i \in DOMAIN bus : bus[i] \in o => (i \in v <=> bus[i] \in h)}

LEMMA LevelsOf ==
  ASSUME NEW bus \in {BUS_A, BUS_D}, NEW value \in SUBSET DOMAIN bus, NEW o, NEW h,
         Carries(bus, value, o, h)
  PROVE  LevelsWith(bus, o, h) = {value}
<1>1. \A i \in DOMAIN bus : bus[i] \in Pins(bus) /\ bus[i][2] = i
  <2>1. CASE bus = BUS_A
    BY <2>1 DEF Pins, BUS_A
  <2>2. CASE bus = BUS_D
    BY <2>2 DEF Pins, BUS_D
  <2> QED BY <2>1, <2>2
<1>2. \A i \in DOMAIN bus : bus[i] \in o /\ (bus[i] \in h <=> i \in value)
  BY <1>1 DEF Carries
<1>3. ASSUME NEW v \in SUBSET DOMAIN bus,
             \A i \in DOMAIN bus : bus[i] \in o => (i \in v <=> bus[i] \in h)
      PROVE  v = value
  <2>1. \A i \in DOMAIN bus : i \in v <=> i \in value
    BY <1>2, <1>3
  <2> QED BY <2>1
<1> QED BY <1>2, <1>3 DEF LevelsWith

\* An operation is known by what it does and its pin.
LEMMA OpFacts ==
  \A o \in Ops :
    /\ o.do = "low" => o = set_pin_low(o.pin)
    /\ o.do = "high" => o = set_pin_high(o.pin)
    /\ o.do = "input" => o = cfg_pin_as_input(o.pin)
    /\ o.do = "output" => o = cfg_pin_as_output(o.pin)
    /\ o.do = "sample" => o = sample(o.pin)
  BY DEF Ops, set_pin_low, set_pin_high, cfg_pin_as_input, cfg_pin_as_output, sample

\* What a step changes of a pin, and what it leaves to be done.
LEMMA PinStep ==
  ASSUME TypeOK, Step
  PROVE  LET op == Head(program) IN
         /\ op \in Ops /\ op \in Left(program)
         /\ Left(program) = {op} \cup Left(program')
         /\ \A p : p \in high' <=> op = set_pin_high(p) \/ (p \in high /\ op # set_pin_low(p))
         /\ \A p : p \in output' <=> op = cfg_pin_as_output(p)
                                       \/ (p \in output /\ op # cfg_pin_as_input(p))
         /\ \A idle : Sorted(program, idle) =>
              Sorted(program', idle) /\ From(program', Rank(op, idle), idle)
<1> DEFINE op == Head(program)
<1>1. /\ op \in Ops /\ op = program[1] /\ Left(program) = {op} \cup Left(program')
      /\ Len(program) \in Nat \ {0} /\ Len(program') = Len(program) - 1
      /\ \A i \in 1 .. Len(program') : program'[i] = program[i + 1]
  BY StepFacts
<1>2. /\ output' = CASE op.do = "output" -> output \cup {op.pin}
                     [] op.do = "input"  -> output \ {op.pin}
                     [] OTHER            -> output
      /\ high' = CASE op.do = "high" -> high \cup {op.pin}
                   [] op.do = "low"  -> high \ {op.pin}
                   [] OTHER          -> high
  BY StepFacts
<1> HIDE DEF op
<1>3. ASSUME NEW p
      PROVE  p \in high' <=> op = set_pin_high(p) \/ (p \in high /\ op # set_pin_low(p))
  <2>1. op = set_pin_high(p) => op.do = "high" /\ op.pin = p
    BY DEF set_pin_high
  <2>2. op = set_pin_low(p) => op.do = "low" /\ op.pin = p
    BY DEF set_pin_low
  <2> QED BY <1>1, <1>2, <2>1, <2>2, OpFacts
<1>4. ASSUME NEW p
      PROVE  p \in output' <=> op = cfg_pin_as_output(p) \/ (p \in output /\ op # cfg_pin_as_input(p))
  <2>1. op = cfg_pin_as_output(p) => op.do = "output" /\ op.pin = p
    BY DEF cfg_pin_as_output
  <2>2. op = cfg_pin_as_input(p) => op.do = "input" /\ op.pin = p
    BY DEF cfg_pin_as_input
  <2> QED BY <1>1, <1>2, <2>1, <2>2, OpFacts
<1>5. ASSUME NEW idle, Sorted(program, idle)
      PROVE  Sorted(program', idle) /\ From(program', Rank(op, idle), idle)
  <2>1. ASSUME NEW i \in 1 .. Len(program')
        PROVE  i + 1 \in 1 .. Len(program) /\ program'[i] = program[i + 1]
    BY <1>1, <2>1
  <2>2. Sorted(program', idle)
    <3> SUFFICES ASSUME NEW i \in 1 .. Len(program'), NEW j \in 1 .. Len(program'), i <= j
                 PROVE  Rank(program'[i], idle) <= Rank(program'[j], idle)
      BY DEF Sorted
    <3>1. i + 1 <= j + 1
      OBVIOUS
    <3> QED BY <1>5, <2>1, <3>1 DEF Sorted
  <2>3. ASSUME NEW o \in Left(program') PROVE Rank(op, idle) <= Rank(o, idle)
    <3>1. PICK i \in 1 .. Len(program') : o = program'[i]
      BY DEF Left
    <3>2. 1 \in 1 .. Len(program) /\ i + 1 \in 1 .. Len(program) /\ 1 <= i + 1
      BY <1>1, <2>1
    <3> QED BY <1>1, <1>5, <2>1, <3>1, <3>2 DEF Sorted
  <2> QED BY <2>2, <2>3 DEF From
<1> QED BY <1>1, <1>3, <1>4, <1>5 DEF op

\* The lines of a bus that is being set.
LEMMA SettlesStep ==
  ASSUME TypeOK, Step, NEW idle \in {RD, WR}, NEW bus \in {BUS_A, BUS_D}, NEW value,
         Sorted(program, idle), Settles(bus, value),
         \A p \in Pins(bus) : set_pin_high(p) \in Left(program) => p[2] \in value
  PROVE  Settles(bus, value)'
<1> DEFINE op == Head(program)
<1>1. /\ op \in Left(program) /\ Left(program) = {op} \cup Left(program')
      /\ \A p : p \in high' <=> op = set_pin_high(p) \/ (p \in high /\ op # set_pin_low(p))
      /\ From(program', Rank(op, idle), idle)
  BY PinStep
<1> HIDE DEF op
<1> SUFFICES ASSUME NEW p \in Pins(bus)
             PROVE  /\ p[2] \in value => \/ set_pin_high(p) \in Left(program')
                                         \/ p \in high' /\ set_pin_low(p) \notin Left(program')
                    /\ p[2] \notin value => set_pin_low(p) \in Left(program') \/ p \notin high'
  BY DEF Settles, Pins
<1>2. op = set_pin_high(p) => set_pin_low(p) \notin Left(program')
  <2>1. Rank(set_pin_low(p), idle) \in {2, 4}
        /\ Rank(set_pin_high(p), idle) = Rank(set_pin_low(p), idle) + 1
    BY RankFacts
  <2>2. ~(Rank(set_pin_high(p), idle) <= Rank(set_pin_low(p), idle))
    BY <2>1
  <2> QED BY <1>1, <2>2 DEF From
<1>3. op = set_pin_high(p) => p[2] \in value
  BY <1>1
<1> QED BY <1>1, <1>2, <1>3 DEF Settles

\* The strobes that are lowered and raised.
LEMMA StrobeStep ==
  ASSUME TypeOK, Step, NEW idle \in {RD, WR}, NEW s \in Strobes \ {idle},
         Sorted(program, idle)
  PROVE  /\ Restored(s) => Restored(s)'
         /\ Lowered(s, idle) => Lowered(s, idle)'
<1> DEFINE op == Head(program)
<1>1. /\ op \in Left(program) /\ Left(program) = {op} \cup Left(program')
      /\ \A p : p \in high' <=> op = set_pin_high(p) \/ (p \in high /\ op # set_pin_low(p))
      /\ From(program', Rank(op, idle), idle)
  BY PinStep
<1> HIDE DEF op
<1>2. Rank(set_pin_high(s), idle) = 10 /\ Rank(set_pin_low(s), idle) \in {7, 8}
  BY RankFacts DEF Strobes
<1>3. op = set_pin_high(s) => From(program', 10, idle)
  BY <1>1, <1>2
<1>4. From(program, 10, idle) => From(program', 10, idle)
  BY <1>1 DEF From
<1>5. From(program', 10, idle) => set_pin_low(s) \notin Left(program')
  <2>1. ~(10 <= Rank(set_pin_low(s), idle))
    BY <1>2
  <2> QED BY <2>1 DEF From
<1>6. op = set_pin_low(s) => op # set_pin_high(s)
  BY DEF set_pin_low, set_pin_high
<1>7. Restored(s) => Restored(s)'
  BY <1>1, <1>3, <1>5 DEF Restored
<1>8. Lowered(s, idle) => Lowered(s, idle)'
  BY <1>1, <1>3, <1>4, <1>6 DEF Lowered
<1> QED BY <1>7, <1>8

\* The operations of a read, told apart.
LEMMA ReadOpsFacts ==
  ASSUME NEW addr
  PROVE  /\ \A p \in Pins(BUS_A) : set_pin_high(p) \in ReadOps(addr) => p[2] \in addr
         /\ \A p : cfg_pin_as_output(p) \notin ReadOps(addr)
         /\ \A p : cfg_pin_as_input(p) \in ReadOps(addr) => p \in Pins(BUS_D)
         /\ \A p : sample(p) \in ReadOps(addr) => p \in Pins(BUS_D)
         /\ set_pin_low(WR) \notin ReadOps(addr)
<1> USE KindFacts DEF ReadOps, BusOps
<1>1. \A p : cfg_pin_as_output(p) \notin ReadOps(addr)
  BY DEF cfg_pin_as_output, cfg_pin_as_input, set_pin_low, set_pin_high, leave, sample
<1>2. \A p : cfg_pin_as_input(p) \in ReadOps(addr) => p \in Pins(BUS_D)
  BY DEF cfg_pin_as_input, set_pin_low, set_pin_high, leave, sample
<1>3. \A p : sample(p) \in ReadOps(addr) => p \in Pins(BUS_D)
  BY DEF cfg_pin_as_input, set_pin_low, set_pin_high, leave, sample
<1>4. ASSUME set_pin_low(WR) \in ReadOps(addr) PROVE FALSE
  <2>1. PICK p \in Pins(BUS_A) \cup {RD, MREQ} : set_pin_low(WR) = set_pin_low(p)
    BY <1>4 DEF cfg_pin_as_input, set_pin_low, set_pin_high, leave, sample
  <2>2. p = WR
    BY <2>1 DEF set_pin_low
  <2> QED BY <2>2
<1>5. ASSUME NEW p \in Pins(BUS_A), set_pin_high(p) \in ReadOps(addr)
      PROVE  p[2] \in addr
  <2>1. p \notin {WR, MREQ, RD}
    OBVIOUS
  <2>2. PICK q \in Pins(BUS_A) \cup {WR, MREQ, RD} :
          set_pin_high(p) = set_pin_high(q) /\ (q \in Pins(BUS_A) => q[2] \in addr)
    BY <1>5 DEF cfg_pin_as_input, set_pin_low, set_pin_high, leave, sample
  <2>3. q = p
    BY <2>2 DEF set_pin_high
  <2> QED BY <2>1, <2>2, <2>3
<1> QED BY <1>1, <1>2, <1>3, <1>4, <1>5

\* A read samples the data lines while the RAM drives them with the byte at
\* the address.
LEMMA Sampling ==
  ASSUME TypeOK, NEW addr \in Address, Reading(addr), Step, Head(program).do = "sample"
  PROVE  LET p == Head(program).pin IN
         /\ p \in Pins(BUS_D) /\ Head(program) = sample(p)
         /\ result' = result \cup ({p[2]} \cap ram[addr])
<1> DEFINE op == Head(program)
<1>1. /\ op \in Ops /\ op \in Left(program) /\ Left(program) = {op} \cup Left(program')
      /\ From(program', Rank(op, WR), WR)
  BY PinStep DEF Reading
<1>2. op = sample(op.pin) /\ op.pin \in Pins(BUS_D)
  BY <1>1, OpFacts, ReadOpsFacts DEF Reading
<1>3. From(program, 9, WR) /\ Rank(op, WR) = 9
  <2>1. Rank(op, WR) = 9
    BY <1>2, RankFacts
  <2> QED BY <1>1, <2>1 DEF From
<1>4. \A s \in {MREQ, RD} : s \in output /\ s \notin high
  <2>1. ASSUME NEW s \in {MREQ, RD} PROVE set_pin_low(s) \notin Left(program)
    <3>1. Rank(set_pin_low(s), WR) \in {7, 8}
      BY RankFacts
    <3> QED BY <1>3, <3>1 DEF From
  <2>2. ~From(program, 10, WR)
    BY <1>1, <1>3 DEF From
  <2> QED BY <2>1, <2>2 DEF Reading, Lowered, Driven, Strobes
<1>5. RamReads
  BY <1>4 DEF RamReads, Active
<1>6. op.pin \notin output
  <2>1. cfg_pin_as_input(op.pin) \notin Left(program)
    <3>1. Rank(cfg_pin_as_input(op.pin), WR) = 1
      BY RankFacts
    <3> QED BY <1>3, <3>1 DEF From
  <2> QED BY <1>2, <2>1 DEF Reading
<1>7. Levels(BUS_A) = {addr}
  <2>1. ASSUME NEW p \in Pins(BUS_A)
        PROVE  p \in output /\ (p \in high <=> p[2] \in addr)
    <3>1. set_pin_high(p) \notin Left(program) /\ set_pin_low(p) \notin Left(program)
      <4>1. Rank(set_pin_high(p), WR) = 3 /\ Rank(set_pin_low(p), WR) = 2
        BY RankFacts
      <4> QED BY <1>3, <4>1 DEF From
    <3> QED BY <3>1 DEF Reading, Settles, Driven
  <2>2. addr \in SUBSET DOMAIN BUS_A
    BY DEF Address, BUS_A
  <2>3. Carries(BUS_A, addr, output, high)
    BY <2>1 DEF Carries
  <2>4. LevelsWith(BUS_A, output, high) = {addr}
    BY <2>2, <2>3, LevelsOf
  <2> QED BY <2>4 DEF Levels, LevelsWith
<1>8. PICK a \in Levels(BUS_A), data \in Levels(BUS_D) :
        result' = result \cup ({op.pin[2]} \cap
                    (IF RamReads /\ op.pin \notin output THEN ram[a] ELSE data))
  BY DEF Step
<1> QED BY <1>2, <1>5, <1>6, <1>7, <1>8

\* Every pin operation of a read keeps what is said of it.
LEMMA ReadStep ==
  ASSUME TypeOK, NEW addr \in Address, Reading(addr), Step
  PROVE  Reading(addr)' /\ UNCHANGED ram
<1> DEFINE op == Head(program)
<1>1. /\ op \in Ops /\ op \in Left(program) /\ Left(program) = {op} \cup Left(program')
      /\ \A p : p \in high' <=> op = set_pin_high(p) \/ (p \in high /\ op # set_pin_low(p))
      /\ \A p : p \in output' <=> op = cfg_pin_as_output(p)
                                    \/ (p \in output /\ op # cfg_pin_as_input(p))
      /\ Sorted(program', WR) /\ From(program', Rank(op, WR), WR)
  BY PinStep DEF Reading
<1>2. op \in ReadOps(addr) /\ Left(program') \subseteq ReadOps(addr)
  BY <1>1 DEF Reading
<1>3. WR \in high'
  BY <1>1, <1>2, ReadOpsFacts DEF Reading
<1>4. UNCHANGED ram
  <2>1. ~RamWrites'
    BY <1>3 DEF RamWrites, Active
  <2> QED BY <2>1 DEF Step
<1>5. Driven \subseteq output'
  <2>1. \A p \in Driven : p \in output /\ p \notin Pins(BUS_D)
    BY KindFacts DEF Reading, Driven, Strobes
  <2> QED BY <1>1, <1>2, <2>1, ReadOpsFacts
<1>6. Settles(BUS_A, addr)'
  <2>1. \A p \in Pins(BUS_A) : set_pin_high(p) \in Left(program) => p[2] \in addr
    BY ReadOpsFacts DEF Reading
  <2> QED BY <2>1, SettlesStep DEF Reading
<1>7. ASSUME NEW p \in output' \cap Pins(BUS_D)
      PROVE  cfg_pin_as_input(p) \in Left(program')
  <2>1. p \in output /\ op # cfg_pin_as_input(p)
    BY <1>1, <1>2, <1>7, ReadOpsFacts
  <2> QED BY <1>1, <1>7, <2>1 DEF Reading
<1>8. RD \notin high' => From(program', 7, WR)
  <2>1. CASE op = set_pin_low(RD)
    <3>1. Rank(op, WR) = 7
      BY <2>1, RankFacts
    <3> QED BY <1>1, <3>1
  <2>2. CASE op # set_pin_low(RD)
    BY <1>1, <2>2 DEF Reading, From
  <2> QED BY <2>1, <2>2
<1>9. \A s \in {MREQ, RD} : Restored(s)' /\ Lowered(s, WR)'
  <2>1. \A s \in {MREQ, RD} : s \in Strobes \ {WR}
    BY KindFacts DEF Strobes
  <2> QED BY <2>1, StrobeStep DEF Reading
<1>10. /\ result' \subseteq ram[addr]
       /\ \A i \in ram[addr] : i \in result' \/ sample(<<"D", i>>) \in Left(program')
  <2>1. CASE op.do = "sample"
    <3>1. /\ op.pin \in Pins(BUS_D) /\ op = sample(op.pin)
          /\ result' = result \cup ({op.pin[2]} \cap ram[addr])
      BY <2>1, Sampling
    <3>2. ASSUME NEW i, op = sample(<<"D", i>>) PROVE op.pin[2] = i
      BY <3>2 DEF sample
    <3> QED BY <1>1, <3>1, <3>2 DEF Reading
  <2>2. CASE op.do # "sample"
    <3>1. result' = result
      BY <2>2 DEF Step
    <3>2. \A i : op # sample(<<"D", i>>)
      BY <2>2 DEF sample
    <3> QED BY <1>1, <3>1, <3>2 DEF Reading
  <2> QED BY <2>1, <2>2
<1>11. \A p \in output' \cap Pins(BUS_D) : cfg_pin_as_input(p) \in Left(program')
  BY <1>7
<1>12. Reading(addr)'
  BY <1>1, <1>2, <1>3, <1>4, <1>5, <1>6, <1>8, <1>9, <1>10, <1>11
     DEF Reading, ReadOps, Driven, BusOps, Pins
<1> QED BY <1>4, <1>12

\* The operations of a write, told apart.
LEMMA WriteOpsFacts ==
  ASSUME NEW addr, NEW byte
  PROVE  /\ \A p \in Pins(BUS_A) : set_pin_high(p) \in WriteOps(addr, byte) => p[2] \in addr
         /\ \A p \in Pins(BUS_D) : set_pin_high(p) \in WriteOps(addr, byte) => p[2] \in byte
         /\ \A p : cfg_pin_as_input(p) \notin WriteOps(addr, byte)
         /\ \A p : sample(p) \notin WriteOps(addr, byte)
         /\ set_pin_low(RD) \notin WriteOps(addr, byte)
<1> USE KindFacts DEF WriteOps, BusOps
<1>1. \A p : cfg_pin_as_input(p) \notin WriteOps(addr, byte)
  BY DEF cfg_pin_as_output, cfg_pin_as_input, set_pin_low, set_pin_high, leave
<1>2. \A p : sample(p) \notin WriteOps(addr, byte)
  BY DEF cfg_pin_as_output, sample, set_pin_low, set_pin_high, leave
<1>3. ASSUME set_pin_low(RD) \in WriteOps(addr, byte) PROVE FALSE
  <2>1. PICK p \in Pins(BUS_A) \cup Pins(BUS_D) \cup {WR, MREQ} : set_pin_low(RD) = set_pin_low(p)
    BY <1>3 DEF cfg_pin_as_output, set_pin_low, set_pin_high, leave
  <2>2. p = RD
    BY <2>1 DEF set_pin_low
  <2> QED BY <2>2
<1>4. ASSUME NEW p \in Pins(BUS_A) \cup Pins(BUS_D), set_pin_high(p) \in WriteOps(addr, byte)
      PROVE  p[2] \in IF p[1] = "A" THEN addr ELSE byte
  <2>1. p \notin {WR, MREQ, RD}
    OBVIOUS
  <2>2. PICK q \in Pins(BUS_A) \cup Pins(BUS_D) \cup {WR, MREQ, RD} :
          /\ set_pin_high(p) = set_pin_high(q)
          /\ q \in Pins(BUS_A) => q[2] \in addr
          /\ q \in Pins(BUS_D) => q[2] \in byte
    <3>1. CASE \E q \in Pins(BUS_A) : q[2] \in addr /\ set_pin_high(p) = set_pin_high(q)
      BY <3>1
    <3>2. CASE \E q \in Pins(BUS_D) : q[2] \in byte /\ set_pin_high(p) = set_pin_high(q)
      BY <3>2
    <3>3. CASE \E q \in {WR, MREQ, RD} : set_pin_high(p) = set_pin_high(q)
      BY <3>3
    <3> QED
      BY <1>4, <3>1, <3>2, <3>3 DEF cfg_pin_as_output, set_pin_low, set_pin_high, leave
  <2>3. q = p
    BY <2>2 DEF set_pin_high
  <2> QED BY <2>1, <2>2, <2>3
<1>5. "A" # "D"
  OBVIOUS
<1> QED BY <1>1, <1>2, <1>3, <1>4, <1>5

\* Once MREQ has gone low everything else is in its place, and the RAM can
\* store nothing but the byte at the address.
LEMMA Storing ==
  ASSUME TypeOK, NEW addr \in Address, NEW byte \in Byte, Writing(addr, byte), Step
  PROVE  /\ MREQ \notin high' => From(program', 8, RD)
         /\ RamWrites' => ram' = [ram EXCEPT ![addr] = byte]
         /\ ~RamWrites' => UNCHANGED ram
         /\ Head(program) = set_pin_low(MREQ) => RamWrites'
<1> DEFINE op == Head(program)
<1>1. /\ op \in Ops /\ op \in Left(program) /\ Left(program) = {op} \cup Left(program')
      /\ \A p : p \in high' <=> op = set_pin_high(p) \/ (p \in high /\ op # set_pin_low(p))
      /\ \A p : p \in output' <=> op = cfg_pin_as_output(p)
                                    \/ (p \in output /\ op # cfg_pin_as_input(p))
      /\ Sorted(program', RD) /\ From(program', Rank(op, RD), RD)
  BY PinStep DEF Writing
<1>2. op \in WriteOps(addr, byte)
  BY <1>1 DEF Writing
<1>3. MREQ \notin high' => From(program', 8, RD)
  <2>1. CASE op = set_pin_low(MREQ)
    <3>1. Rank(op, RD) = 8
      BY <2>1, RankFacts
    <3> QED BY <1>1, <3>1
  <2>2. CASE op # set_pin_low(MREQ)
    BY <1>1, <2>2 DEF Writing, From
  <2> QED BY <2>1, <2>2
<1>4. Settles(BUS_A, addr)' /\ Settles(BUS_D, byte)'
  <2>1. \A p \in Pins(BUS_A) : set_pin_high(p) \in Left(program) => p[2] \in addr
    BY WriteOpsFacts DEF Writing
  <2>2. \A p \in Pins(BUS_D) : set_pin_high(p) \in Left(program) => p[2] \in byte
    BY WriteOpsFacts DEF Writing
  <2> QED BY <2>1, <2>2, SettlesStep DEF Writing
<1>5. ASSUME MREQ \notin high', NEW p \in Pins(BUS_A) \cup Pins(BUS_D)
      PROVE  /\ set_pin_high(p) \notin Left(program') /\ set_pin_low(p) \notin Left(program')
             /\ cfg_pin_as_output(p) \notin Left(program')
  <2>1. /\ Rank(set_pin_high(p), RD) \in 1 .. 5 /\ Rank(set_pin_low(p), RD) \in 1 .. 5
        /\ Rank(cfg_pin_as_output(p), RD) = 1
    BY RankFacts
  <2> QED BY <1>3, <1>5, <2>1 DEF From
<1>6. \A p \in Pins(BUS_D) : p \in output' \/ cfg_pin_as_output(p) \in Left(program')
  BY <1>1, <1>2, WriteOpsFacts DEF Writing
<1>7. \A p \in Driven : p \in output'
  BY <1>1, <1>2, WriteOpsFacts DEF Writing
<1>8. ASSUME MREQ \notin high'
      PROVE  Levels(BUS_A)' = {addr} /\ Levels(BUS_D)' = {byte}
  <2>1. ASSUME NEW p \in Pins(BUS_A) PROVE p \in output' /\ (p \in high' <=> p[2] \in addr)
    BY <1>4, <1>5, <1>7, <1>8 DEF Settles, Driven, Pins
  <2>2. ASSUME NEW p \in Pins(BUS_D) PROVE p \in output' /\ (p \in high' <=> p[2] \in byte)
    BY <1>4, <1>5, <1>6, <1>8 DEF Settles, Pins
  <2>3. addr \in SUBSET DOMAIN BUS_A /\ byte \in SUBSET DOMAIN BUS_D
    BY DEF Address, Byte, BUS_A, BUS_D
  <2>4. Carries(BUS_A, addr, output', high') /\ Carries(BUS_D, byte, output', high')
    BY <2>1, <2>2 DEF Carries
  <2>5. LevelsWith(BUS_A, output', high') = {addr}
    BY <2>3, <2>4, LevelsOf
  <2>6. LevelsWith(BUS_D, output', high') = {byte}
    BY <2>3, <2>4, LevelsOf
  <2>7. Levels(BUS_A)' = LevelsWith(BUS_A, output', high')
    BY DEF Levels, LevelsWith, BUS_A
  <2>8. Levels(BUS_D)' = LevelsWith(BUS_D, output', high')
    BY DEF Levels, LevelsWith, BUS_D
  <2> QED BY <2>5, <2>6, <2>7, <2>8
<1>9. RamWrites' => ram' = [ram EXCEPT ![addr] = byte]
  <2> SUFFICES ASSUME RamWrites' PROVE ram' = [ram EXCEPT ![addr] = byte]
    OBVIOUS
  <2>1. Levels(BUS_A)' = {addr} /\ Levels(BUS_D)' = {byte}
    BY <1>8 DEF RamWrites, Active
  <2>2. \E a \in Levels(BUS_A)', data \in Levels(BUS_D)' : ram' = [ram EXCEPT ![a] = data]
    BY DEF Step
  <2> QED BY <2>1, <2>2
<1>10. ~RamWrites' => UNCHANGED ram
  BY DEF Step
<1>11. op = set_pin_low(MREQ) => RamWrites'
  <2> SUFFICES ASSUME op = set_pin_low(MREQ) PROVE RamWrites'
    OBVIOUS
  <2>1. Rank(op, RD) = 8 /\ Rank(set_pin_low(WR), RD) = 7
    BY RankFacts
  <2>2. set_pin_low(WR) \notin Left(program)
    <3>1. op # set_pin_low(WR)
      BY <2>1
    <3>2. set_pin_low(WR) \notin Left(program')
      BY <1>1, <2>1 DEF From
    <3> QED BY <1>1, <3>1, <3>2
  <2>3. ~From(program, 10, RD)
    BY <1>1, <2>1 DEF From
  <2>4. WR \notin high
    BY <2>2, <2>3 DEF Writing, Lowered
  <2>5. op # set_pin_high(WR) /\ op # set_pin_high(MREQ)
    BY DEF set_pin_low, set_pin_high
  <2>6. WR \notin high' /\ MREQ \notin high'
    BY <1>1, <2>4, <2>5
  <2>7. WR \in output' /\ MREQ \in output'
    BY <1>7 DEF Driven, Strobes
  <2> QED BY <2>6, <2>7 DEF RamWrites, Active
<1> QED BY <1>3, <1>9, <1>10, <1>11

\* Every pin operation of a write keeps what is said of it.
LEMMA WriteStep ==
  ASSUME TypeOK, NEW addr \in Address, NEW byte \in Byte, Writing(addr, byte), Step
  PROVE  Writing(addr, byte)'
<1> DEFINE op == Head(program)
<1>1. /\ op \in Ops /\ op \in Left(program) /\ Left(program) = {op} \cup Left(program')
      /\ \A p : p \in high' <=> op = set_pin_high(p) \/ (p \in high /\ op # set_pin_low(p))
      /\ \A p : p \in output' <=> op = cfg_pin_as_output(p)
                                    \/ (p \in output /\ op # cfg_pin_as_input(p))
      /\ Sorted(program', RD) /\ From(program', Rank(op, RD), RD)
  BY PinStep DEF Writing
<1>2. op \in WriteOps(addr, byte) /\ Left(program') \subseteq WriteOps(addr, byte)
  BY <1>1 DEF Writing
<1>3. RD \in high'
  BY <1>1, <1>2, WriteOpsFacts DEF Writing
<1>4. Settles(BUS_A, addr)' /\ Settles(BUS_D, byte)'
  <2>1. \A p \in Pins(BUS_A) : set_pin_high(p) \in Left(program) => p[2] \in addr
    BY WriteOpsFacts DEF Writing
  <2>2. \A p \in Pins(BUS_D) : set_pin_high(p) \in Left(program) => p[2] \in byte
    BY WriteOpsFacts DEF Writing
  <2> QED BY <2>1, <2>2, SettlesStep DEF Writing
<1>5. \A p \in Pins(BUS_D) : p \in output' \/ cfg_pin_as_output(p) \in Left(program')
  BY <1>1, <1>2, WriteOpsFacts DEF Writing
<1>6. Driven \subseteq output'
  BY <1>1, <1>2, WriteOpsFacts DEF Writing
<1>7. (\A s \in {MREQ, WR} : Restored(s)') /\ Lowered(WR, RD)'
  <2>1. \A s \in {MREQ, WR} : s \in Strobes \ {RD}
    BY KindFacts DEF Strobes
  <2> QED BY <2>1, StrobeStep DEF Writing
<1>8. MREQ \notin high' => From(program', 8, RD)
  BY Storing
<1>9. set_pin_low(MREQ) \in Left(program') \/ ram'[addr] = byte
  <2>1. ram \in [Address -> Byte]
    BY DEF TypeOK
  <2>2. RamWrites' => ram'[addr] = byte
    BY <2>1, Storing
  <2>3. ~RamWrites' => ram' = ram /\ op # set_pin_low(MREQ)
    BY Storing
  <2> QED BY <1>1, <2>2, <2>3 DEF Writing
<1> QED
  BY <1>1, <1>2, <1>3, <1>4, <1>5, <1>6, <1>7, <1>8, <1>9
     DEF Writing, WriteOps, Driven, BusOps, Pins

---------------------------------------------------------------------------
(* The other requests, and the start of each.                              *)

\* main raises every strobe; an acquire takes the lines that it drives.
LEMMA TakingFacts ==
  /\ \A s \in Strobes : set_pin_high(s) \in Left(boot)
  /\ \A o \in Left(bc80_bus_acquire) : o.do # "input" /\ (o.do = "low" => o.pin = RESET)
  /\ \A p \in Driven : cfg_pin_as_output(p) \in Left(bc80_bus_acquire)
<1> DEFINE control == <<MREQ, BUSRQ, WR, RD, RESET>>
           pins == BUS_A \o BUS_D \o control
           outputs == Each(cfg_pin_as_output, pins)
           highs == Each(set_pin_high, control)
           three == <<MREQ, WR, RD>>
           lines == BUS_A \o three
           first == <<set_pin_low(RESET)>>
           takes == Each(cfg_pin_as_output, lines)
           raises == Each(set_pin_high, <<RD, WR, MREQ>>)
           front == first \o takes
<1>1. /\ control \in Seq(AllPins) /\ Left(control) = {MREQ, BUSRQ, WR, RD, RESET}
      /\ three \in Seq(AllPins) /\ Left(three) = Strobes
      /\ raises \in Seq(Ops) /\ Left(raises) = {set_pin_high(p) : p \in {MREQ, WR, RD}}
  BY ControlFacts, EachFacts DEF Strobes
<1>2. boot = outputs \o highs /\ bc80_bus_acquire = front \o raises
  BY DEF boot, bc80_bus_acquire
<1>3. first \in Seq(Ops) /\ Left(first) = {set_pin_low(RESET)}
  <2>1. set_pin_low(RESET) \in Ops /\ 1 .. 1 = {1}
    BY PinFacts DEF set_pin_low, Ops
  <2> QED BY <2>1 DEF Left
<1> HIDE DEF control, three, raises, first
<1>4. pins \in Seq(AllPins)
  <2>1. BUS_A \o BUS_D \in Seq(AllPins)
    BY PinFacts, LeftConcat
  <2> QED BY <1>1, <2>1, LeftConcat
<1>5. lines \in Seq(AllPins) /\ Left(lines) = Driven
  BY <1>1, PinFacts, LeftConcat DEF Driven
<1> HIDE DEF pins, lines
<1>6. /\ outputs \in Seq(Ops)
      /\ highs \in Seq(Ops) /\ Left(highs) = {set_pin_high(p) : p \in Left(control)}
      /\ takes \in Seq(Ops) /\ Left(takes) = {cfg_pin_as_output(p) : p \in Driven}
  BY <1>1, <1>4, <1>5, EachFacts
<1> HIDE DEF outputs, highs, takes
<1>7. Left(boot) = Left(outputs) \cup Left(highs)
  BY <1>2, <1>6, LeftConcat
<1>8. front \in Seq(Ops) /\ Left(front) = Left(first) \cup Left(takes)
  BY <1>3, <1>6, LeftConcat
<1> HIDE DEF front
<1>9. Left(bc80_bus_acquire) = Left(front) \cup Left(raises)
  BY <1>1, <1>2, <1>8, LeftConcat
<1>10. \A s \in Strobes : set_pin_high(s) \in Left(boot)
  BY <1>1, <1>6, <1>7 DEF Strobes
<1>11. \A o \in Left(bc80_bus_acquire) : o.do # "input" /\ (o.do = "low" => o.pin = RESET)
  BY <1>1, <1>3, <1>6, <1>8, <1>9 DEF set_pin_low, set_pin_high, cfg_pin_as_output
<1>12. \A p \in Driven : cfg_pin_as_output(p) \in Left(bc80_bus_acquire)
  BY <1>6, <1>8, <1>9
<1> QED BY <1>10, <1>11, <1>12

\* A request that is done leaves every strobe high, and one after which the
\* client has the bus leaves its lines driven.
LEMMA Rested ==
  ASSUME Access, program = <<>>,
         request.name \in {"boot", "acquire", "release", "read", "write"}
  PROVE  /\ Strobes \subseteq high
         /\ request.name \in {"acquire", "read", "write"} => Driven \subseteq output
<1>1. Left(program) = {}
  BY DEF Left
<1>2. CASE request.name = "boot"
  BY <1>1, <1>2 DEF Access
<1>3. CASE request.name = "acquire"
  BY <1>1, <1>3 DEF Access
<1>4. CASE request.name = "release"
  BY <1>4 DEF Access
<1>5. CASE request.name = "read"
  <2>1. WR \in high /\ Restored(MREQ) /\ Restored(RD) /\ Driven \subseteq output
    BY <1>5 DEF Access, Reading
  <2> QED BY <1>1, <1>5, <2>1 DEF Restored, Strobes
<1>6. CASE request.name = "write"
  <2>1. RD \in high /\ Restored(MREQ) /\ Restored(WR) /\ Driven \subseteq output
    BY <1>6 DEF Access, Writing
  <2> QED BY <1>1, <1>6, <2>1 DEF Restored, Strobes
<1> QED BY <1>2, <1>3, <1>4, <1>5, <1>6

\* The value a bus is set to.
LEMMA SettlesStart ==
  ASSUME NEW bus \in {BUS_A, BUS_D}, NEW value, BusOps(bus, value) \subseteq Left(program)'
  PROVE  Settles(bus, value)'
<1>1. \A p \in Pins(bus) : /\ set_pin_low(p) \in Left(program')
                           /\ p[2] \in value => set_pin_high(p) \in Left(program')
  BY DEF BusOps
<1> QED BY <1>1 DEF Settles, Pins

\* A read begins with everything still to be done.
LEMMA ReadStart ==
  ASSUME NEW addr \in Address, Driven \subseteq output, Strobes \subseteq high,
         program' = bc80_read_mem(addr), UNCHANGED <<output, high, ram>>, result' = {},
         ram \in [Address -> Byte]
  PROVE  Reading(addr)'
<1>1. Sorted(program', WR) /\ Left(program') = ReadOps(addr)
  BY ReadProgram
<1>2. Settles(BUS_A, addr)'
  BY <1>1, SettlesStart DEF ReadOps
<1>3. \A p \in Pins(BUS_D) : cfg_pin_as_input(p) \in Left(program') /\ sample(p) \in Left(program')
  BY <1>1 DEF ReadOps
<1>4. \A s \in {MREQ, RD} : set_pin_high(s) \in Left(program') /\ set_pin_low(s) \in Left(program')
  BY <1>1 DEF ReadOps
<1>5. \A s \in {MREQ, RD} : Restored(s)' /\ Lowered(s, WR)'
  BY <1>4 DEF Restored, Lowered, MREQ, RD, WR
<1>6. \A i \in ram'[addr] : sample(<<"D", i>>) \in Left(program')
  <2>1. ASSUME NEW i \in 1 .. DWidth PROVE <<"D", i>> \in Pins(BUS_D)
    BY DEF Pins, BUS_D
  <2>2. ram'[addr] \subseteq 1 .. DWidth
    BY DEF Byte
  <2> QED BY <1>3, <2>1, <2>2
<1>7. RD \in high' /\ WR \in high'
  BY DEF Strobes
<1> QED
  BY <1>1, <1>2, <1>3, <1>5, <1>6, <1>7
     DEF Reading, ReadOps, Driven, Strobes, BusOps, Pins

\* So does a write.
LEMMA WriteStart ==
  ASSUME NEW addr \in Address, NEW byte \in Byte,
         Driven \subseteq output, Strobes \subseteq high,
         program' = bc80_write_mem(addr, byte), UNCHANGED <<output, high>>
  PROVE  Writing(addr, byte)'
<1>1. Sorted(program', RD) /\ Left(program') = WriteOps(addr, byte)
  BY WriteProgram
<1>2. Settles(BUS_A, addr)' /\ Settles(BUS_D, byte)'
  BY <1>1, SettlesStart DEF WriteOps
<1>3. \A p \in Pins(BUS_D) : cfg_pin_as_output(p) \in Left(program')
  BY <1>1 DEF WriteOps
<1>4. \A s \in {MREQ, WR} : set_pin_high(s) \in Left(program') /\ set_pin_low(s) \in Left(program')
  BY <1>1 DEF WriteOps
<1>5. (\A s \in {MREQ, WR} : Restored(s)') /\ Lowered(WR, RD)'
  BY <1>4 DEF Restored, Lowered, MREQ, RD, WR
<1>6. RD \in high' /\ MREQ \in high'
  BY DEF Strobes
<1> QED
  BY <1>1, <1>2, <1>3, <1>4, <1>5, <1>6
     DEF Writing, WriteOps, Driven, Strobes, BusOps, Pins

\* A pin operation of any other request neither lowers a strobe nor, in an
\* acquire, gives up a line.
LEMMA OtherStep ==
  ASSUME TypeOK, Access, Step, request.name \in {"boot", "acquire", "release"}
  PROVE  Access'
<1> DEFINE op == Head(program)
<1>1. /\ op \in Ops /\ op \in Left(program) /\ Left(program) = {op} \cup Left(program')
      /\ \A p : p \in high' <=> op = set_pin_high(p) \/ (p \in high /\ op # set_pin_low(p))
      /\ \A p : p \in output' <=> op = cfg_pin_as_output(p)
                                    \/ (p \in output /\ op # cfg_pin_as_input(p))
  BY PinStep
<1>2. request' = request
  BY DEF Step
<1> HIDE DEF op
<1>3. \A s \in Strobes : op # set_pin_low(s)
  <2>1. op.do = "low" => op.pin = RESET
    BY <1>1 DEF Access
  <2>2. \A s \in Strobes : s # RESET
    BY PinFacts DEF Strobes, Z80Pins
  <2> QED BY <2>1, <2>2 DEF set_pin_low
<1>4. CASE request.name = "boot"
  <2>1. \A s \in Strobes : s \in high' \/ set_pin_high(s) \in Left(program')
    BY <1>1, <1>3, <1>4 DEF Access
  <2>2. \A o \in Left(program') : o.do = "low" => o.pin = RESET
    BY <1>1, <1>4 DEF Access
  <2> QED BY <1>2, <1>4, <2>1, <2>2 DEF Access, Strobes
<1>5. CASE request.name \in {"acquire", "release"}
  <2>1. \A s \in Strobes : s \in high'
    BY <1>1, <1>3, <1>5 DEF Access
  <2>2. \A o \in Left(program') : o.do = "low" => o.pin = RESET
    BY <1>1, <1>5 DEF Access
  <2>3. request.name = "acquire" =>
          /\ \A o \in Left(program') : o.do # "input"
          /\ \A p \in Driven : p \in output' \/ cfg_pin_as_output(p) \in Left(program')
    <3> SUFFICES ASSUME request.name = "acquire"
                 PROVE  /\ \A o \in Left(program') : o.do # "input"
                        /\ \A p \in Driven : p \in output' \/ cfg_pin_as_output(p) \in Left(program')
      OBVIOUS
    <3>1. \A o \in Left(program) : o.do # "input"
      BY DEF Access
    <3>2. \A p : op # cfg_pin_as_input(p)
      BY <1>1, <3>1 DEF cfg_pin_as_input
    <3>3. \A p \in Driven : p \in output \/ cfg_pin_as_output(p) \in Left(program)
      BY DEF Access
    <3> QED BY <1>1, <3>1, <3>2, <3>3
  <2> QED BY <1>2, <1>5, <2>1, <2>2, <2>3 DEF Access, Strobes, Driven, Pins
<1> QED BY <1>4, <1>5

\* The invariant of the pins and of the RAM together.
FullInv == BusInv /\ MemoryInv

\* A new request begins when the one before is done.
LEMMA SendStep ==
  ASSUME FullInv, Plain, cmd_acquire \/ cmd_release \/ cmd_wr \/ cmd_rd
  PROVE  Access'
<1>1. TypeOK /\ Session /\ Access
  BY DEF FullInv, BusInv, MemoryInv
<1>2. program = <<>> /\ UNCHANGED <<output, high, ram>> /\ result' = {}
  BY DEF cmd_acquire, cmd_release, cmd_wr, cmd_rd, Send
<1>3. request.name \in {"boot", "acquire", "release", "read", "write"}
  BY <1>1 DEF Session
<1>4. Strobes \subseteq high /\ (request.name \in {"acquire", "read", "write"} => Driven \subseteq output)
  BY <1>1, <1>2, <1>3, Rested
<1>5. CASE cmd_acquire
  <2>1. request' = [name |-> "acquire"] /\ program' = bc80_bus_acquire
    BY <1>5 DEF cmd_acquire, Send
  <2>2. request'.name = "acquire"
    BY <2>1
  <2> QED BY <1>2, <1>4, <2>1, <2>2, TakingFacts DEF Access, Strobes, Driven, Pins
<1>6. CASE cmd_release
  <2>1. request' = [name |-> "release"] /\ program' = bc80_bus_release
    BY <1>6 DEF cmd_release, Send
  <2>2. request'.name = "release"
    BY <2>1
  <2>3. \A o \in Left(program') : o.do # "low"
    BY <2>1, ReleaseFacts
  <2> QED BY <1>2, <1>4, <2>2, <2>3 DEF Access, Strobes
<1>7. ASSUME cmd_wr \/ cmd_rd PROVE Driven \subseteq output
  <2>1. g_bus_state = "acquired"
    BY <1>7 DEF cmd_wr, cmd_rd
  <2>2. request.name \notin {"boot", "release"}
    BY <1>1, <1>2, <2>1 DEF Session
  <2> QED BY <1>3, <1>4, <2>2
<1>8. CASE cmd_rd
  <2>1. PICK addr \in Address : /\ request' = [name |-> "read", addr |-> addr]
                                /\ program' = bc80_read_mem(addr)
    BY <1>8 DEF cmd_rd, Send
  <2>2. request'.name = "read" /\ request'.addr = addr
    BY <2>1
  <2>3. Reading(addr)'
    BY <1>1, <1>2, <1>4, <1>7, <1>8, <2>1, ReadStart DEF TypeOK
  <2> QED BY <2>2, <2>3 DEF Access
<1>9. CASE cmd_wr
  <2>1. PICK addr \in Address, byte \in Byte :
          /\ request' = [name |-> "write", addr |-> addr, byte |-> byte]
          /\ program' = bc80_write_mem(addr, byte)
    BY <1>9 DEF cmd_wr, Send
  <2>2. request'.name = "write" /\ request'.addr = addr /\ request'.byte = byte
    BY <2>1
  <2>3. Writing(addr, byte)'
    BY <1>2, <1>4, <1>7, <1>9, <2>1, WriteStart
  <2> QED BY <2>2, <2>3 DEF Access
<1> QED BY <1>5, <1>6, <1>8, <1>9

\* During an access the Z80 is in reset.
LEMMA Alone ==
  ASSUME BusInv, Plain, request.name \in {"read", "write"}
  PROVE  ~Z80Runs
BY DEF BusInv, Session, Held, Z80Runs, Active

\* Every step keeps the invariant.
LEMMA FullInvNext == FullInv /\ [Next]_vars => FullInv'
<1> SUFFICES ASSUME FullInv, [Next]_vars PROVE FullInv'
  OBVIOUS
<1>1. BusInv'
  BY BusInvNext DEF FullInv
<1> SUFFICES ASSUME Plain PROVE Access'
  <2>1. plan' = plan
    BY DEF Next, Step, Z80Write, Boot, cmd_acquire, cmd_release, cmd_wr, cmd_rd, cmd_pin, Send, vars
  <2> QED BY <1>1, <2>1 DEF FullInv, MemoryInv, Plain
<1>2. BusInv /\ TypeOK /\ Session /\ Access
  BY DEF FullInv, BusInv, MemoryInv
<1>3. CASE Step
  <2>0. request' = request
    BY <1>3 DEF Step
  <2>1. CASE request.name = "read"
    <3>1. request.addr \in Address /\ Reading(request.addr)
      BY <1>2, <2>1 DEF Access
    <3>2. Reading(request.addr)'
      BY <1>2, <1>3, <2>0, <3>1, ReadStep
    <3> QED BY <2>0, <2>1, <3>1, <3>2 DEF Access
  <2>2. CASE request.name = "write"
    <3>1. request.addr \in Address /\ request.byte \in Byte /\ Writing(request.addr, request.byte)
      BY <1>2, <2>2 DEF Access
    <3>2. Writing(request.addr, request.byte)'
      BY <1>2, <1>3, <2>0, <3>1, WriteStep
    <3> QED BY <2>0, <2>2, <3>1, <3>2 DEF Access
  <2>3. CASE request.name \in {"boot", "acquire", "release"}
    BY <1>2, <1>3, <2>3, OtherStep
  <2> QED BY <1>2, <2>1, <2>2, <2>3 DEF Session
<1>4. CASE Z80Write
  <2>1. Z80Runs /\ UNCHANGED <<output, high, program, request, result>>
    BY <1>4 DEF Z80Write
  <2>2. request.name \notin {"read", "write"}
    BY <1>2, <2>1, Alone
  <2> QED BY <1>2, <2>1, <2>2 DEF Access, Strobes, Driven, Pins
<1>5. CASE Boot
  BY <1>2, <1>5 DEF Boot, Plain, Session
<1>6. CASE cmd_acquire \/ cmd_release \/ cmd_wr \/ cmd_rd
  BY <1>6, SendStep
<1>7. CASE cmd_pin
  BY <1>7 DEF cmd_pin, Plain
<1>8. CASE UNCHANGED vars
  BY <1>2, <1>8
     DEF vars, Access, Reading, Writing, Settles, Restored, Lowered, Strobes, Driven, Pins
<1> QED BY <1>3, <1>4, <1>5, <1>6, <1>7, <1>8 DEF Next

\* It holds at first.
LEMMA FullInvInit == Init => FullInv
<1> SUFFICES ASSUME Init PROVE FullInv
  OBVIOUS
<1>1. request.name = "boot" /\ program = boot
  BY DEF Init
<1>2. Access
  BY <1>1, BootFacts, TakingFacts DEF Access
<1> QED BY <1>2, BusInvInit DEF FullInv, MemoryInv

---------------------------------------------------------------------------
(* The properties.                                                         *)

\* In a plain session the debugger drives no data line while the RAM does
\* (bc80_read_mem makes them inputs first).
THEOREM DataLinesApart == Spec => []NoDataFight
<1>1. FullInv => NoDataFight
  <2> SUFFICES ASSUME FullInv, Plain, RamReads, g_bus_state # "unknown"
               PROVE  output \cap Pins(BUS_D) = {}
    BY DEF NoDataFight
  <2>1. Session /\ Access /\ RD \notin high
    BY DEF FullInv, BusInv, MemoryInv, RamReads, Active
  <2>2. request.name = "read"
    <3>1. request.name # "boot"
      BY <2>1 DEF Session
    <3>2. request.name \notin {"acquire", "release"}
      BY <2>1 DEF Access, Strobes
    <3>3. request.name # "write"
      BY <2>1 DEF Access, Writing
    <3> QED BY <2>1, <3>1, <3>2, <3>3 DEF Session
  <2>3. Reading(request.addr)
    BY <2>1, <2>2 DEF Access
  <2>4. From(program, 7, WR)
    BY <2>1, <2>3 DEF Reading
  <2>5. \A p : cfg_pin_as_input(p) \notin Left(program)
    <3>1. \A p : ~(7 <= Rank(cfg_pin_as_input(p), WR))
      BY RankFacts
    <3> QED BY <2>4, <3>1 DEF From
  <2> QED BY <2>3, <2>5 DEF Reading
<1> QED BY <1>1, FullInvInit, FullInvNext, PTL DEF Spec

\* In a plain session a read or a write that is done has done what it says:
\* the byte read is the byte stored (bc80_read_mem, bc80_write_mem).
THEOREM CommandsServed == Spec => []Served
<1>1. FullInv => Served
  <2> SUFFICES ASSUME FullInv, Plain, program = <<>> PROVE Served
    BY DEF Served
  <2>1. Access /\ Left(program) = {}
    BY DEF FullInv, MemoryInv, Left
  <2>2. ASSUME request.name = "write" PROVE ram[request.addr] = request.byte
    BY <2>1, <2>2 DEF Access, Writing
  <2>3. ASSUME request.name = "read" PROVE result = ram[request.addr]
    BY <2>1, <2>3 DEF Access, Reading
  <2> QED BY <2>2, <2>3 DEF Served
<1> QED BY <1>1, FullInvInit, FullInvNext, PTL DEF Spec

\* In a plain session with the Z80 in reset nothing but a write command
\* changes the RAM, and no byte but the one it names (bc80_write_mem).
THEOREM OnlyWritesStore == Spec => OnlyWrites
<1> DEFINE Stores == Plain /\ ram' # ram /\ ~Z80Runs /\ g_bus_state # "unknown" =>
                       /\ request.name = "write"
                       /\ ram' = [ram EXCEPT ![request.addr] = request.byte]
<1>1. FullInv /\ [Next]_vars => [Stores]_vars
  <2> SUFFICES ASSUME FullInv, [Next]_vars, Plain, ram' # ram, ~Z80Runs, g_bus_state # "unknown"
               PROVE  /\ request.name = "write"
                      /\ ram' = [ram EXCEPT ![request.addr] = request.byte]
    OBVIOUS
  <2>1. TypeOK /\ Session /\ Access
    BY DEF FullInv, BusInv, MemoryInv
  <2>2. Step
    BY <2>1 DEF Next, Z80Write, Boot, Session, Plain, cmd_acquire, cmd_release, cmd_wr, cmd_rd,
              cmd_pin, Send, vars
  <2>3. RamWrites'
    BY <2>2 DEF Step
  <2>4. MREQ \notin high'
    BY <2>3 DEF RamWrites, Active
  <2>5. request.name # "boot"
    BY <2>1 DEF Session
  <2>6. request.name \notin {"acquire", "release"}
    <3>1. request.name \in {"acquire", "release"} => Access' /\ request' = request
      BY <2>1, <2>2, OtherStep DEF Step
    <3> QED BY <2>4, <3>1 DEF Access, Strobes
  <2>7. request.name # "read"
    BY <2>1, <2>2, ReadStep DEF Access
  <2>8. request.name = "write"
    BY <2>1, <2>5, <2>6, <2>7 DEF Session
  <2>9. /\ request.addr \in Address /\ request.byte \in Byte
        /\ Writing(request.addr, request.byte)
    BY <2>1, <2>8 DEF Access
  <2> QED BY <2>1, <2>2, <2>3, <2>8, <2>9, Storing
<1> QED BY <1>1, FullInvInit, FullInvNext, PTL DEF Spec, OnlyWrites
===========================================================================
