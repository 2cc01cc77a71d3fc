--------------------------- MODULE SystemMonitor ---------------------------
(* The program in the ROM of the board: the keyboard loop and the handler  *)
(* of sysmon.asm with the console routines of uart.asm, instruction by     *)
(* instruction where the order matters.  A program that calls putdec       *)
(* stands for the users of the routine.                                    *)
(*                                                                         *)
(* The handler runs to its end once it is entered, as interrupts stay off: *)
(* it is one step.  Its text is one character, and it waits for the        *)
(* transmitter before it.                                                  *)
EXTENDS Integers, Sequences, FiniteSets, SequencesExt

CONSTANTS
  Scancodes,      \* what the keyboard may hold
  Numbers,        \* what putdec may be called with
  MaxKeys         \* bound on the changes of the keyboard

ASSUME MonitorAssumption ==
  /\ Scancodes \subseteq Nat /\ \A code \in Scancodes : code < 256
  /\ Numbers \subseteq Nat /\ \A n \in Numbers : n < 65536
  /\ MaxKeys \in Nat

VARIABLES
  pc,       \* the next instruction
  ret,      \* where putchar returns to
  a, z,     \* accumulator and zero flag, which exx does not bank
  regs,     \* the bank in use: d, e and hl
  other,    \* the other bank
  stack,    \* digits pushed by putdec
  iff,      \* interrupts are enabled
  struck,   \* where the interrupt has come, if it has
  kbd, keys,
  held,     \* scancodes the keyboard has held so far
  holding,  \* characters in the transmitter: the one it sends, one behind it
  sent,     \* the console
  asked     \* what was to be printed: scancodes and numbers

cpu == <<pc, ret, a, z, regs, other, stack, iff, struck>>
uart == <<holding, sent>>
keyboard == <<kbd, keys, held>>
vars == <<cpu, keyboard, uart, asked>>

scancode_msg == <<80, 83>>  \* "PS", for the whole message
ISR == 256                  \* no character: the text of the handler
EOI == 32
TXE == 4

Goes(next) == pc' = next
----------------------------------------------------------------------------
Init ==
  /\ ret = "loop"
  /\ a = 0 /\ z = FALSE /\ stack = <<>> /\ iff = FALSE /\ struck = "none"
  /\ \/ /\ pc = "_start" /\ asked = <<>> /\ keys = 0
        /\ kbd \in Scancodes /\ regs \in [d : {0}, e : Scancodes, hl : {0}]
     \/ /\ pc = "putdec" /\ kbd = 0 /\ keys = MaxKeys
        /\ \E n \in Numbers : regs = [d |-> 0, e |-> 0, hl |-> n] /\ asked = <<[kind |-> "number", v |-> n]>>
  /\ held = {kbd}
  /\ other = [d |-> 0, e |-> 0, hl |-> 0]
  /\ holding = <<>> /\ sent = <<>>

_start ==
  /\ pc = "_start" /\ Goes("loop") /\ iff' = TRUE
  /\ UNCHANGED <<ret, a, z, regs, other, stack, struck, keyboard, uart, asked>>

(* in a, (KBD_DATA); cp e; ld e, a; jr z                                   *)
loop ==
  /\ pc = "loop" /\ Goes("cp") /\ a' = kbd
  /\ UNCHANGED <<ret, z, regs, other, stack, iff, struck, keyboard, uart, asked>>
cp_e ==
  /\ pc = "cp" /\ Goes("ld") /\ z' = (a = regs.e)
  /\ UNCHANGED <<ret, a, regs, other, stack, iff, struck, keyboard, uart, asked>>

\* Mutant: the scancode is not kept.
ld_e_Forgets ==
  /\ pc = "ld" /\ Goes("jr")
  /\ UNCHANGED <<ret, a, z, regs, other, stack, iff, struck, keyboard, uart, asked>>

ld_e ==
  /\ pc = "ld" /\ Goes("jr") /\ regs' = [regs EXCEPT !.e = a]
  /\ UNCHANGED <<ret, a, z, other, stack, iff, struck, keyboard, uart, asked>>
jr_z ==
  /\ pc = "jr"
  /\ IF z THEN Goes("loop") /\ UNCHANGED <<regs, asked>>
          ELSE /\ Goes("puts") /\ regs' = [regs EXCEPT !.hl = 1]
               /\ asked' = Append(asked, [kind |-> "scancode", v |-> regs.e])
  /\ UNCHANGED <<ret, a, z, other, stack, iff, struck, keyboard, uart>>
----------------------------------------------------------------------------
(* puts: ld a, (hl); cp 0; jr z; putchar; inc hl                           *)
puts ==
  /\ pc = "puts" /\ Goes("puts_cp")
  /\ a' = IF regs.hl \in DOMAIN scancode_msg THEN scancode_msg[regs.hl] ELSE 0
  /\ UNCHANGED <<ret, z, regs, other, stack, iff, struck, keyboard, uart, asked>>
puts_cp ==
  /\ pc = "puts_cp" /\ Goes("puts_jr") /\ z' = (a = 0)
  /\ UNCHANGED <<ret, a, regs, other, stack, iff, struck, keyboard, uart, asked>>
puts_jr ==
  /\ pc = "puts_jr"
  /\ IF z THEN Goes("puthex_msd") /\ regs' = [regs EXCEPT !.hl = regs.e] /\ UNCHANGED ret
          ELSE Goes("putchar") /\ ret' = "puts_inc" /\ UNCHANGED regs
  /\ UNCHANGED <<a, z, other, stack, iff, struck, keyboard, uart, asked>>
puts_inc ==
  /\ pc = "puts_inc" /\ Goes("puts") /\ regs' = [regs EXCEPT !.hl = @ + 1]
  /\ UNCHANGED <<ret, a, z, other, stack, iff, struck, keyboard, uart, asked>>

(* puthex with a zero in h: two digits of l.  Then crlf, 10 before 13.     *)
Digit(v) == IF v < 10 THEN 48 + v ELSE 55 + v
Character == [puthex_msd |-> <<Digit(regs.hl \div 16), "puthex_lsd">>,
              puthex_lsd |-> <<Digit(regs.hl % 16), "crlf_lf">>,
              crlf_lf |-> <<10, "crlf_cr">>,
              crlf_cr |-> <<13, "loop">>]
print ==
  /\ pc \in DOMAIN Character /\ Goes("putchar")
  /\ a' = Character[pc][1] /\ ret' = Character[pc][2]
  /\ UNCHANGED <<z, regs, other, stack, iff, struck, keyboard, uart, asked>>

(* putchar: ld d, a; in a, (UART_CMD); bit 2, a; jr z; ld a, d; out        *)
putchar ==
  /\ pc = "putchar" /\ Goes("wait_in") /\ regs' = [regs EXCEPT !.d = a]
  /\ UNCHANGED <<ret, a, z, other, stack, iff, struck, keyboard, uart, asked>>
_putchar_wait_txe ==
  /\ pc = "wait_in" /\ Goes("wait_bit") /\ a' = IF holding = <<>> THEN TXE ELSE 0
  /\ UNCHANGED <<ret, z, regs, other, stack, iff, struck, keyboard, uart, asked>>
wait_bit ==
  /\ pc = "wait_bit" /\ Goes("wait_jr") /\ z' = ((a \div TXE) % 2 = 0)
  /\ UNCHANGED <<ret, a, regs, other, stack, iff, struck, keyboard, uart, asked>>

\* Mutant: the condition of the jump is reversed.
wait_jr_NonZero ==
  /\ pc = "wait_jr" /\ Goes(IF ~z THEN "wait_in" ELSE "ld_d")
  /\ UNCHANGED <<ret, a, z, regs, other, stack, iff, struck, keyboard, uart, asked>>

wait_jr ==
  /\ pc = "wait_jr" /\ Goes(IF z THEN "wait_in" ELSE "ld_d")
  /\ UNCHANGED <<ret, a, z, regs, other, stack, iff, struck, keyboard, uart, asked>>
ld_a_d ==
  /\ pc = "ld_d" /\ Goes("out") /\ a' = regs.d
  /\ UNCHANGED <<ret, z, regs, other, stack, iff, struck, keyboard, uart, asked>>
(* The transmitter takes one character behind the one it sends; one more   *)
(* is written over that.  TXE says that it has neither.                    *)
out ==
  /\ pc = "out" /\ Goes(ret)
  /\ holding' = IF Len(holding) < 2 THEN Append(holding, a) ELSE <<Head(holding), a>>
  /\ UNCHANGED <<ret, a, z, regs, other, stack, iff, struck, keyboard, sent, asked>>
----------------------------------------------------------------------------
(* putdec: the quotient by shifts and additions of 16 bits, with the carry *)
(* the last shift has left; the digits wait on the stack.  A shift by n    *)
(* bits is given as the power 2 ^ n it divides by.                         *)
Shift(v, power) == v \div power
Carry(v, power) == Shift(v, power \div 2) % 2
Add(v, w) == (v + w) % 65536
AddShifted(v, w, power) == Add(v, Shift(w, power) + Carry(w, power))
Quotient(n) ==
  LET q1 == AddShifted(Shift(n, 2), n, 4)
      q2 == AddShifted(q1, q1, 16)
      q3 == AddShifted(q2, q2, 256)
  IN Shift(q3, 8)

(* q is doubled twice, added to itself with the carry of that, and doubled *)
(* again; the borrow is the carry of the last one.                         *)
Remainder(n, q) ==
  LET q5 == Add(Add(4 * q, q), (((2 * q) % 65536) * 2) \div 65536)
  IN (n - Add(q5, q5) - (2 * q5) \div 65536) % 65536

putdec ==
  /\ pc = "putdec"
  /\ LET q == Quotient(regs.hl)
         r == Remainder(regs.hl, q)
         more == r % 256 >= 10
         next == IF more THEN Add(q, 1) ELSE q
     IN /\ stack' = Append(stack, (48 + r - IF more THEN 10 ELSE 0) % 256)
        /\ regs' = [regs EXCEPT !.hl = next]
        /\ Goes(IF next = 0 THEN "putdec_3" ELSE "putdec")
  /\ UNCHANGED <<ret, a, z, other, iff, struck, keyboard, uart, asked>>

_putdec_3 ==
  /\ pc = "putdec_3"
  /\ IF stack = <<>> THEN Goes("halt") /\ UNCHANGED <<ret, a, stack>>
     ELSE /\ a' = Last(stack) /\ stack' = Front(stack)
          /\ Goes("putchar") /\ ret' = "putdec_3"
  /\ UNCHANGED <<z, regs, other, iff, struck, keyboard, uart, asked>>
----------------------------------------------------------------------------
(* The handler uses the other bank, but A and the flags of the program it  *)
(* interrupts: they are the EOI and those of the last putchar when it      *)
(* returns.  Nothing enables interrupts again.                             *)
\* Mutant: no exx, and the message is in the registers of the program.
isr0_handler_OneBank ==
  /\ iff /\ iff' = FALSE /\ struck' = pc
  /\ a' = EOI /\ z' = FALSE
  /\ regs' = [regs EXCEPT !.d = ISR, !.hl = 0]
  /\ sent' = sent \o holding /\ holding' = <<ISR>>
  /\ UNCHANGED <<pc, ret, other, stack, keyboard, asked>>

isr0_handler ==
  /\ iff /\ iff' = FALSE /\ struck' = pc
  /\ a' = EOI /\ z' = FALSE
  /\ other' = [other EXCEPT !.d = ISR, !.hl = 0]
  /\ sent' = sent \o holding /\ holding' = <<ISR>>
  /\ UNCHANGED <<pc, ret, regs, stack, keyboard, asked>>

transmit ==
  /\ holding # <<>>
  /\ sent' = Append(sent, Head(holding)) /\ holding' = Tail(holding)
  /\ UNCHANGED <<cpu, keyboard, asked>>

press ==
  /\ keys < MaxKeys
  /\ kbd' \in Scancodes \ {kbd} /\ keys' = keys + 1 /\ held' = held \cup {kbd'}
  /\ UNCHANGED <<cpu, uart, asked>>

Polling == loop \/ cp_e \/ ld_e \/ jr_z
Printing ==
  \/ puts \/ puts_cp \/ puts_jr \/ puts_inc \/ print
  \/ putchar \/ _putchar_wait_txe \/ wait_bit \/ wait_jr \/ ld_a_d \/ out \/ putdec \/ _putdec_3
Program == _start \/ Polling \/ Printing
Next == Program \/ isr0_handler \/ transmit \/ press
Spec == Init /\ [][Next]_vars /\ WF_vars(Program) /\ WF_vars(transmit)
----------------------------------------------------------------------------
(* The decimal digits of a number of 16 bits, without leading zeros.       *)
Place(n, power) ==
  IF n >= power \/ power = 1 THEN <<Digit((n \div power) % 10)>> ELSE <<>>
Decimal(n) ==
  Place(n, 10000) \o Place(n, 1000) \o Place(n, 100) \o Place(n, 10) \o Place(n, 1)

Text(r) ==
  IF r.kind = "number" THEN Decimal(r.v)
  ELSE scancode_msg \o <<Digit(r.v \div 16), Digit(r.v % 16), 10, 13>>
Wanted == FlattenSeq([j \in DOMAIN asked |-> Text(asked[j])])
(* The handler, which runs once, has put its text somewhere.               *)
Console ==
  LET shown == sent \o holding
  IN IF ISR \in Range(shown)
       THEN RemoveAt(shown, CHOOSE j \in DOMAIN shown : shown[j] = ISR)
       ELSE shown

(* No interrupt has come, or it has come where A and the flags are dead,   *)
(* or only make putchar ask the transmitter once more, or write behind the *)
(* text of the handler.                                                    *)
Harmless ==
  struck \in {"none", "loop", "puts", "puts_inc", "puthex_msd", "puthex_lsd",
             "crlf_lf", "crlf_cr", "wait_in", "wait_bit", "wait_jr", "ld_d"}

(* The console shows the message and both digits of every scancode the     *)
(* loop has seen, or all decimal digits of the number, in order and each   *)
(* character once, and the text of the handler as well: its registers are  *)
(* its own (sysmon.asm:53), and no character is written over another one,  *)
(* unless the interrupt has come where A and the flags are in use.         *)
ConsoleText ==
  Harmless => /\ IsPrefix(Console, Wanted)
              /\ other.d = ISR => ISR \in Range(sent \o holding)

(* Reports of a code the keyboard has not held, or of the one before again. *)
Ghosts ==
  {j \in DOMAIN asked : /\ asked[j].kind = "scancode"
                        /\ \/ asked[j].v \notin held
                           \/ j > 1 /\ asked[j].v = asked[j - 1].v}

(* Wherever the interrupt comes, A and the flags it leaves changed mislead *)
(* the loop once at most, and not before it: input, comparison, copy and   *)
(* jump (sysmon.asm:124-127) make one report of a code never held or of an *)
(* old one, and all other reports are true.                                *)
NoGhostKeys == Cardinality(Ghosts) <= IF iff THEN 0 ELSE 1

(* Everything that was to be printed is on the console in the end, unless  *)
(* the interrupt has come where A and the flags are in use.  Wherever it   *)
(* comes, the loop finds back to the keyboard: once it rests, the register *)
(* holds its scancode, and it is the last reported, unless the register    *)
(* held it from the beginning.                                             *)
Reported ==
  <>[](/\ Harmless => Console = Wanted
       /\ pc # "halt" => regs.e = kbd /\ (asked # <<>> => Last(asked).v = kbd))

(* "scancode_not_changed" (sysmon.asm:123): nothing is reported then.      *)
OnlyChanges == Ghosts = {}

(* "enable interrupts" (sysmon.asm:119): the loop runs with interrupts on.  *)
Listening == pc = "loop" => iff
============================================================================
