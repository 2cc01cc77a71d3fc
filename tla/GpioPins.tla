----------------------------- MODULE GpioPins -----------------------------
(***************************************************************************)
(* The pins of the bluepill board that are wired to the bc80 bus           *)
(* (dbgproto.h), and the operations of stm32_hw.c on them.  A pin has a    *)
(* mode, output or floating input, and an output latch that keeps its      *)
(* value while the pin is an input.  A firmware function is the sequence   *)
(* of its pin operations.                                                  *)
(***************************************************************************)
EXTENDS Integers, Sequences

CONSTANTS AWidth, DWidth   \* number of address and data pins (16 and 8)

ASSUME WidthAssumption == {AWidth, DWidth} \subseteq Nat \ {0}

BUS_A == [i \in 1 .. AWidth |-> <<"A", i>>]
BUS_D == [i \in 1 .. DWidth |-> <<"D", i>>]
MREQ == <<"MREQ">>
BUSRQ == <<"BUSRQ">>
WR == <<"WR">>
RD == <<"RD">>
RESET == <<"RESET">>

Pins(bus) == {bus[i] : i \in DOMAIN bus}

\* Every pin the Z80 drives when it runs.
Z80Pins == Pins(BUS_A) \cup Pins(BUS_D) \cup {MREQ, WR, RD}
AllPins == Z80Pins \cup {BUSRQ, RESET}

\* Addresses and bytes: the set of the bits that are 1.
Address == SUBSET (1 .. AWidth)
Byte == SUBSET (1 .. DWidth)

Ops == [do : {"output", "input", "low", "high", "sample", "leave"}, pin : AllPins]

cfg_pin_as_output(p) == [do |-> "output", pin |-> p]
cfg_pin_as_input(p) == [do |-> "input", pin |-> p]
set_pin_low(p) == [do |-> "low", pin |-> p]
set_pin_high(p) == [do |-> "high", pin |-> p]
sample(p) == [do |-> "sample", pin |-> p]   \* is_pin_high
leave(p) == [do |-> "leave", pin |-> p]     \* the bit tested is 0: no operation

\* An operation on every pin of a bus; a bus set to a value: all pins low, then
\* those of the bits that are 1 high.
Each(Op(_), bus) == [i \in DOMAIN bus |-> Op(bus[i])]
Set(bus, value) ==
  LET Raise(p) == IF p[2] \in value THEN set_pin_high(p) ELSE leave(p)
  IN  Each(set_pin_low, bus) \o Each(Raise, bus)
===========================================================================
