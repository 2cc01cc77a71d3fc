---------------------------- MODULE Disassembler ----------------------------
(* The decoder of disasm/disasm_opcodes.c with the operand printer of       *)
(* disasm/disasm_print.c: Decode gives the instruction a listing shows for  *)
(* the bytes at hand, its operands as the assembler would read them back.   *)
(* The masks of the code are the fields x, y, z, p, q of an opcode.         *)
EXTENDS Instruction

x(op) == op \div 64
y(op) == (op \div 8) % 8
z(op) == op % 8
p(op) == (op \div 16) % 4
q(op) == (op \div 8) % 2

\* Mutant: the cast to int8_t left out.
signed8_Unsigned(v) == v % 256
signed8(v) == IF v % 256 > 127 THEN (v % 256) - 256 ELSE v % 256

(* Printing of operands *)
regnames == <<"b", "c", "d", "e", "h", "l", "<?>", "a">>
Gpr(r) == Id(regnames[r + 1])
PairP(n) == Id(<<"bc", "de", "hl", "af">>[n + 1])
PairQ(n) == Id(<<"bc", "de", "hl", "sp">>[n + 1])
Index(prefix) == Id(IF prefix = 221 THEN "ix" ELSE "iy")
HalfIndex(r, prefix) ==
  Id(IF r \notin {4, 5} THEN regnames[r + 1]
     ELSE IF prefix = 221 THEN <<"ixh", "ixl">>[r - 3] ELSE <<"iyh", "iyl">>[r - 3])
IndexRef(d) == Indexed(IF d[1] = 221 THEN "ix" ELSE "iy", signed8(d[3]))
Condition(c) == Id(<<"nz", "z", "nc", "c", "po", "pe", "p", "m">>[c + 1])
RelJump(b) == Here(signed8(signed8(b) + 2))
Imm8(b, ref) == Lit(b, ref)
Imm16(lsb, msb, ref) == Lit(lsb + 256 * msb, ref)

Instr(m, args, isize) == [m |-> m, args |-> args, isize |-> isize]
Invalid(d) == Instr("defb", <<Imm8(d[1], FALSE)>>, 1)

(* Register, or (hl) for number 6.                                          *)
Cell(r) == IF r = 6 THEN IdRef("hl") ELSE Gpr(r)
Arithmetic(row, arg, isize) ==
  LET m == <<"add", "adc", "sub", "sbc", "and", "xor", "or", "cp">>[row + 1]
  IN Instr(m, IF m \in {"add", "adc", "sbc"} THEN <<Id("a"), arg>> ELSE <<arg>>, isize)
Rotation(row) == <<"rlc", "rrc", "rl", "rr", "sla", "sra", "sll", "srl">>[row + 1]
BitOperation(group) == <<"bit", "res", "set">>[group]
Named(table, codes) == [c \in {codes[m] : m \in DOMAIN codes} |->
                          Instr(CHOOSE m \in DOMAIN codes : codes[m] = c, <<>>, table)]
-----------------------------------------------------------------------------
process_bits(d) ==
  LET op == d[2]
  IN IF x(op) = 0 THEN Instr(Rotation(y(op)), <<Cell(z(op))>>, 2)
     ELSE Instr(BitOperation(x(op)), <<Lit(y(op), FALSE), Cell(z(op))>>, 2)

process_index_bits(d) ==
  LET op == d[4]
  IN CASE x(op) = 0 /\ z(op) = 6 -> Instr(Rotation(y(op)), <<IndexRef(d)>>, 4)
       [] x(op) = 1 \/ (x(op) > 1 /\ z(op) = 6) ->
            Instr(BitOperation(x(op)), <<Lit(y(op), FALSE), IndexRef(d)>>, 4)
       [] OTHER -> Invalid(d)

ExtendedNames ==
  Named(2, [cpd |-> 169, cpdr |-> 185, cpi |-> 161, cpir |-> 177, neg |-> 68,
            ind |-> 170, indr |-> 186, ini |-> 162, inir |-> 178,
            ldd |-> 168, lddr |-> 184, ldi |-> 160, ldir |-> 176,
            outd |-> 171, otdr |-> 187, outi |-> 163, otir |-> 179,
            reti |-> 77, retn |-> 69, rld |-> 111, rrd |-> 103])
process_extended(d) ==
  LET op == d[2]
  IN CASE op = 87 -> Instr("ld", <<Id("a"), Id("i")>>, 2)
       [] op = 95 -> Instr("ld", <<Id("a"), Id("r")>>, 2)
       [] op = 71 -> Instr("ld", <<Id("i"), Id("a")>>, 2)
       [] op = 79 -> Instr("ld", <<Id("r"), Id("a")>>, 2)
       [] op \in DOMAIN ExtendedNames -> ExtendedNames[op]
       [] op \in {70, 86, 94} -> Instr("im", <<Imm8(IF op = 70 THEN 0 ELSE IF op = 86 THEN 1 ELSE 2, FALSE)>>, 2)
       [] x(op) = 1 /\ z(op) = 0 -> Instr("in", <<Gpr(y(op)), IdRef("c")>>, 2)
       [] x(op) = 1 /\ z(op) = 1 -> Instr("out", <<IdRef("c"), Gpr(y(op))>>, 2)
       [] x(op) = 1 /\ z(op) = 2 -> Instr(IF q(op) = 0 THEN "sbc" ELSE "adc", <<Id("hl"), PairQ(p(op))>>, 2)
       [] x(op) = 1 /\ z(op) = 3 /\ q(op) = 0 -> Instr("ld", <<Imm16(d[3], d[4], TRUE), PairQ(p(op))>>, 4)
       [] x(op) = 1 /\ z(op) = 3 /\ q(op) = 1 -> Instr("ld", <<PairQ(p(op)), Imm16(d[3], d[4], TRUE)>>, 4)
       [] OTHER -> Invalid(d)

process_index(d) ==
  LET op == d[2]
      ii == Index(d[1])
      memory == IndexRef(d)
  IN CASE op = 54 -> Instr("ld", <<memory, Imm8(d[4], FALSE)>>, 4)
       [] x(op) = 1 /\ y(op) = 6 -> Instr("ld", <<memory, Gpr(z(op))>>, 3)
       [] x(op) = 1 /\ y(op) # 6 /\ z(op) = 6 -> Instr("ld", <<Gpr(y(op)), memory>>, 3)
       [] op = 33 -> Instr("ld", <<ii, Imm16(d[3], d[4], FALSE)>>, 4)
       [] op = 42 -> Instr("ld", <<ii, Imm16(d[3], d[4], TRUE)>>, 4)
       [] op = 34 -> Instr("ld", <<Imm16(d[3], d[4], TRUE), ii>>, 4)
       [] op = 249 -> Instr("ld", <<Id("sp"), ii>>, 2)
       [] x(op) = 0 /\ z(op) = 6 /\ y(op) # 6 -> Instr("ld", <<HalfIndex(y(op), d[1]), Imm8(d[3], FALSE)>>, 3)
       [] x(op) = 1 /\ y(op) # 6 /\ z(op) # 6 ->
            Instr("ld", <<HalfIndex(y(op), d[1]), HalfIndex(z(op), d[1])>>, 2)
       [] op = 229 -> Instr("push", <<ii>>, 2)
       [] op = 225 -> Instr("pop", <<ii>>, 2)
       [] op = 227 -> Instr("ex", <<IdRef("sp"), ii>>, 2)
       [] op = 233 -> Instr("jp", <<[ii EXCEPT !.is_ref = TRUE]>>, 2)
       [] x(op) = 0 /\ z(op) = 1 /\ q(op) = 1 -> Instr("add", <<ii, PairQ(p(op))>>, 2)
       [] x(op) = 2 /\ z(op) = 6 -> Arithmetic(y(op), memory, 3)
       [] x(op) = 2 /\ z(op) # 6 -> Arithmetic(y(op), HalfIndex(z(op), d[1]), 2)
       [] op = 35 -> Instr("inc", <<ii>>, 2)
       [] op = 43 -> Instr("dec", <<ii>>, 2)
       [] x(op) = 0 /\ z(op) \in {4, 5} ->
            LET m == IF z(op) = 4 THEN "inc" ELSE "dec"
            IN IF y(op) = 6 THEN Instr(m, <<memory>>, 3) ELSE Instr(m, <<HalfIndex(y(op), d[1])>>, 2)
       [] op = 203 -> process_index_bits(d)
       [] OTHER -> Invalid(d)

PlainNames ==
  Named(1, [ccf |-> 63, cpl |-> 47, daa |-> 39, di |-> 243, ei |-> 251, exx |-> 217, halt |-> 118,
            nop |-> 0, rla |-> 23, rlca |-> 7, rra |-> 31, rrca |-> 15, scf |-> 55, ret |-> 201])
process_load(d) ==
  LET op == d[1]
      nn == Imm16(d[2], d[3], TRUE)
  IN CASE op = 2 -> Instr("ld", <<IdRef("bc"), Id("a")>>, 1)
       [] op = 18 -> Instr("ld", <<IdRef("de"), Id("a")>>, 1)
       [] op = 34 -> Instr("ld", <<nn, Id("hl")>>, 3)
       [] op = 50 -> Instr("ld", <<nn, Id("a")>>, 3)
       [] op = 10 -> Instr("ld", <<Id("a"), IdRef("bc")>>, 1)
       [] op = 26 -> Instr("ld", <<Id("a"), IdRef("de")>>, 1)
       [] op = 42 -> Instr("ld", <<Id("hl"), nn>>, 3)
       [] op = 58 -> Instr("ld", <<Id("a"), nn>>, 3)

process_low(d) ==    \* 0x00 .. 0x3f
  LET op == d[1]
  IN CASE op = 8 -> Instr("ex", <<Id("af"), Id("af'")>>, 1)
       [] op = 16 -> Instr("djnz", <<RelJump(d[2])>>, 2)
       [] op = 24 -> Instr("jr", <<RelJump(d[2])>>, 2)
       [] z(op) = 0 /\ y(op) > 3 -> Instr("jr", <<Condition(y(op) - 4), RelJump(d[2])>>, 2)
       [] z(op) = 1 /\ q(op) = 0 -> Instr("ld", <<PairQ(p(op)), Imm16(d[2], d[3], FALSE)>>, 3)
       [] z(op) = 1 /\ q(op) = 1 -> Instr("add", <<Id("hl"), PairQ(p(op))>>, 1)
       [] z(op) = 2 -> process_load(d)
       [] z(op) = 3 -> Instr(IF q(op) = 0 THEN "inc" ELSE "dec", <<PairQ(p(op))>>, 1)
       [] z(op) = 4 -> Instr("inc", <<Cell(y(op))>>, 1)
       [] z(op) = 5 -> Instr("dec", <<Cell(y(op))>>, 1)
       [] z(op) = 6 -> Instr("ld", <<Cell(y(op)), Imm8(d[2], FALSE)>>, 2)

process_high(d) ==   \* 0xc0 .. 0xff
  LET op == d[1]
      nn == Imm16(d[2], d[3], FALSE)
  IN CASE op = 195 -> Instr("jp", <<nn>>, 3)
       [] op = 205 -> Instr("call", <<nn>>, 3)
       [] op = 203 -> process_bits(d)
       [] op = 237 -> process_extended(d)
       [] op \in {221, 253} -> process_index(d)
       [] op = 211 -> Instr("out", <<Imm8(d[2], TRUE), Id("a")>>, 2)
       [] op = 219 -> Instr("in", <<Id("a"), Imm8(d[2], TRUE)>>, 2)
       [] op = 227 -> Instr("ex", <<IdRef("sp"), Id("hl")>>, 1)
       [] op = 235 -> Instr("ex", <<Id("de"), Id("hl")>>, 1)
       [] op = 233 -> Instr("jp", <<IdRef("hl")>>, 1)
       [] op = 249 -> Instr("ld", <<Id("sp"), Id("hl")>>, 1)
       [] z(op) = 0 -> Instr("ret", <<Condition(y(op))>>, 1)
       [] z(op) = 1 /\ q(op) = 0 -> Instr("pop", <<PairP(p(op))>>, 1)
       [] z(op) = 2 -> Instr("jp", <<Condition(y(op)), nn>>, 3)
       [] z(op) = 4 -> Instr("call", <<Condition(y(op)), nn>>, 3)
       [] z(op) = 5 /\ q(op) = 0 -> Instr("push", <<PairP(p(op))>>, 1)
       [] z(op) = 6 -> Arithmetic(y(op), Imm8(d[2], FALSE), 2)
       [] z(op) = 7 -> Instr("rst", <<Lit(8 * y(op), FALSE)>>, 1)

(* The instruction at the head of the four bytes d.                         *)
Decode(d) ==
  LET op == d[1]
  IN CASE op \in DOMAIN PlainNames -> PlainNames[op]
       [] x(op) = 1 /\ op # 118 -> Instr("ld", <<Cell(y(op)), Cell(z(op))>>, 1)
       [] x(op) = 2 -> Arithmetic(y(op), Cell(z(op)), 1)
       [] x(op) = 0 /\ op \notin DOMAIN PlainNames -> process_low(d)
       [] x(op) = 3 /\ op \notin DOMAIN PlainNames -> process_high(d)
============================================================================
