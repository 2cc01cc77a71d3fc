---------------------------- MODULE Instruction ----------------------------
(* What compile_instruction_impl (asm/instruction.c) emits for an          *)
(* instruction: the set Forms of every accepted instruction with its code  *)
(* and with the places of the code left to the second pass.  Operands are  *)
(* the parse nodes expr_eval hands over; is_ref marks parentheses.  An     *)
(* instruction that is in no form is a compilation error.                  *)
(*                                                                         *)
(* Left out are forms with parentheses the encoder does not look at, as in *)
(* ADD (A),B and RET (NZ): their codes are those of the forms without.     *)
EXTENDS Integers, Sequences

CONSTANTS
  Bytes,    \* values tried as 8-bit immediates and port numbers
  Words,    \* values tried as 16-bit immediates and addresses
  Offsets,  \* values tried as index offsets
  Jumps     \* targets tried for relative jumps, as distances from $

ASSUME ValuesAssumption ==
  /\ Bytes \subseteq Int
  /\ Words \subseteq Int
  /\ Offsets \subseteq Int
  /\ Jumps \subseteq Int
----------------------------------------------------------------------------
(* Operands *)
Id(name) == [node |-> "ID", name |-> name, is_ref |-> FALSE]
IdRef(name) == [node |-> "ID", name |-> name, is_ref |-> TRUE]
Lit(v, ref) == [node |-> "LITERAL", ival |-> v, is_ref |-> ref]
Indexed(name, d) == [node |-> "EXPR", name |-> name, offset |-> d, is_ref |-> TRUE]
Here(n) == [node |-> "PC", offset |-> n, is_ref |-> FALSE]
Unresolved(ref) == [node |-> "UNRESOLVED", is_ref |-> ref]

gpr8 == [a |-> 7, b |-> 0, c |-> 1, d |-> 2, e |-> 3, h |-> 4, l |-> 5]
qreg16 == [bc |-> 0, de |-> 1, hl |-> 2, sp |-> 3]
preg16 == [bc |-> 0, de |-> 1, hl |-> 2, af |-> 3]
index == [ix |-> 221, iy |-> 253]
half == [ixh |-> <<221, 4>>, ixl |-> <<221, 5>>, iyh |-> <<253, 4>>, iyl |-> <<253, 5>>]
condition == [nz |-> 0, z |-> 1, nc |-> 2, c |-> 3, po |-> 4, pe |-> 5, p |-> 6, m |-> 7]

Low(v) == v % 256
High(v) == (v \div 256) % 256

(* A place register_fwd_lookup notes for the second pass: pos counts from  *)
(* the first byte of the instruction.  Most callers pass an offset into    *)
(* the section, some (absolute) the address itself.                        *)
Patch(pos, nbytes) == [pos |-> pos, nbytes |-> nbytes, absolute |-> FALSE, relative |-> FALSE]
AbsolutePatch(pos) == [Patch(pos, 1) EXCEPT !.absolute = TRUE]
RelativePatch(pos) == [Patch(pos, 1) EXCEPT !.relative = TRUE]

(* An operand with the code it stands for.                                 *)
Operand(arg, code) == [arg |-> arg, code |-> code, patches |-> <<>>]

try_get_arg_8imm(ref, patches) ==
  {Operand(Lit(v, ref), <<Low(v)>>) : v \in Bytes}
    \cup {[arg |-> Unresolved(ref), code |-> <<0>>, patches |-> patches]}

try_get_arg_16imm(ref, patches) ==
  {Operand(Lit(v, ref), <<Low(v), High(v)>>) : v \in Words}
    \cup {[arg |-> Unresolved(ref), code |-> <<0, 0>>, patches |-> patches]}

(* The literals alone, where imm_pos is -1.                                *)
Resolved(operands) == {o \in operands : o.arg.node = "LITERAL"}

try_get_arg_reladdr ==
  {Operand(Here(n), <<Low(n - 2)>>) : n \in {m \in Jumps : m - 2 \in -128 .. 127}}
    \cup {[arg |-> Unresolved(FALSE), code |-> <<0>>, patches |-> <<RelativePatch(1)>>]}

Behind(code, operands) == {[o EXCEPT !.code = code \o @] : o \in operands}

(* r, ixh .. iyl and the two kinds of memory operand; c is the code of the *)
(* operand in its plain form, s its distance between registers.            *)
Registers(c, s) == {Operand(Id(r), <<c + s * gpr8[r]>>) : r \in DOMAIN gpr8}
Pairs(c) == {Operand(Id(q), <<c + 16 * qreg16[q]>>) : q \in DOMAIN qreg16}
Halves(c, s) == {Operand(Id(x), <<half[x][1], c + s * half[x][2]>>) : x \in DOMAIN half}
try_get_arg_index_offset8(c) ==
  {Operand(Indexed(i, d), <<index[i], c, Low(d)>>) : i \in DOMAIN index, d \in Offsets}
Memory(c) == {Operand(IdRef("hl"), <<c>>)} \cup try_get_arg_index_offset8(c)
Indexes(c) == {Operand(Id(i), <<index[i], c>>) : i \in DOMAIN index}

(* A form is its mnemonic, its operands and what it is translated to; here *)
(* forms without operands, with one, and with a second one on either side  *)
(* that adds nothing to the code.                                          *)
Form(m, args, o) == [m |-> m, args |-> args, code |-> o.code, patches |-> o.patches]
Form0(m, code) == Form(m, <<>>, Operand({}, code))
Forms1(m, operands) == {Form(m, <<o.arg>>, o) : o \in operands}
Forms2(m, first, operands) == {Form(m, <<first, o.arg>>, o) : o \in operands}
FormsTo(m, operands, second) == {Form(m, <<o.arg, second>>, o) : o \in operands}
----------------------------------------------------------------------------
(* Arithmetic.  y is the row of the operation among the eight; the place   *)
(* noted for an operand known later differs between them.                  *)
Source(y, patch) ==
  Registers(128 + 8 * y, 1) \cup Memory(134 + 8 * y) \cup Halves(128 + 8 * y, 1)
    \cup Behind(<<198 + 8 * y>>, try_get_arg_8imm(FALSE, <<patch>>))

ADD ==
  Forms2("add", Id("a"), Source(0, AbsolutePatch(2)))
    \cup Forms2("add", Id("hl"), Pairs(9))
    \cup UNION {Forms2("add", Id(i), Behind(<<index[i]>>, Pairs(9))) : i \in DOMAIN index}
ADC ==
  Forms2("adc", Id("a"), Source(1, AbsolutePatch(2)))
    \cup Forms2("adc", Id("hl"), Behind(<<237>>, Pairs(74)))
SUB == Forms1("sub", Source(2, Patch(1, 1)))
SBC ==
  Forms2("sbc", Id("a"), Source(3, Patch(1, 1)))
    \cup Forms2("sbc", Id("hl"), Behind(<<237>>, Pairs(66)))
AND == Forms1("and", Source(4, AbsolutePatch(2)))
XOR == Forms1("xor", Source(5, Patch(1, 1)))
OR == Forms1("or", Source(6, Patch(1, 1)))
CP == Forms1("cp", Source(7, Patch(2, 1)))
INC == Forms1("inc", Registers(4, 8) \cup Memory(52) \cup Pairs(3) \cup Indexes(35) \cup Halves(4, 8))
DEC == Forms1("dec", Registers(5, 8) \cup Memory(53) \cup Pairs(11) \cup Indexes(43) \cup Halves(5, 8))

(* Rotations, shifts and bits: behind 0xCB the byte c, before which an     *)
(* index offset is put.                                                    *)
Prefixed(c) ==
  Behind(<<203>>, Registers(c, 1) \cup {Operand(IdRef("hl"), <<c + 6>>)})
    \cup {Operand(Indexed(i, d), <<index[i], 203, Low(d), c + 6>>) : i \in DOMAIN index, d \in Offsets}
RLC == Forms1("rlc", Prefixed(0))
RRC == Forms1("rrc", Prefixed(8))
RL == Forms1("rl", Prefixed(16))
RR == Forms1("rr", Prefixed(24))
SLA == Forms1("sla", Prefixed(32))
SRA == Forms1("sra", Prefixed(40))
\* Mutant: the code of the line above.
SLL_AsSLA == Forms1("sll", Prefixed(32))
SLL == Forms1("sll", Prefixed(48))
SRL == Forms1("srl", Prefixed(56))
BIT == UNION {Forms2("bit", Lit(b, FALSE), Prefixed(64 + 8 * b)) : b \in 0 .. 7}
RES == UNION {Forms2("res", Lit(b, FALSE), Prefixed(128 + 8 * b)) : b \in 0 .. 7}
SET == UNION {Forms2("set", Lit(b, FALSE), Prefixed(192 + 8 * b)) : b \in 0 .. 7}
----------------------------------------------------------------------------
(* Jumps, calls and the stack *)
\* Mutant: the place of the opcode noted for that of the address.
Address_AtOpcode(c) == Behind(<<c>>, try_get_arg_16imm(FALSE, <<Patch(0, 2)>>))
Address(c) == Behind(<<c>>, try_get_arg_16imm(FALSE, <<Patch(1, 2)>>))
JP ==
  Forms1("jp", Address(195) \cup {Operand(IdRef("hl"), <<233>>)}
                \cup {Operand(IdRef(i), <<index[i], 233>>) : i \in DOMAIN index})
    \cup UNION {Forms2("jp", Id(cc), Address(194 + 8 * condition[cc])) : cc \in DOMAIN condition}
CALL ==
  Forms1("call", Address(205))
    \cup UNION {Forms2("call", Id(cc), Address(196 + 8 * condition[cc])) : cc \in DOMAIN condition}
RET ==
  {Form0("ret", <<201>>)}
    \cup Forms1("ret", {Operand(Id(cc), <<192 + 8 * condition[cc]>>) : cc \in DOMAIN condition})
JR ==
  Forms1("jr", Behind(<<24>>, try_get_arg_reladdr))
    \cup UNION {Forms2("jr", Id(cc), Behind(<<32 + 8 * condition[cc]>>, try_get_arg_reladdr)) :
                  cc \in {"nz", "z", "nc", "c"}}
DJNZ == Forms1("djnz", Behind(<<16>>, try_get_arg_reladdr))
RST == Forms1("rst", {Operand(Lit(8 * y, FALSE), <<199 + 8 * y>>) : y \in 0 .. 7})
Stack(c, i) == {Operand(Id(p), <<c + 16 * preg16[p]>>) : p \in DOMAIN preg16} \cup Indexes(i)
POP == Forms1("pop", Stack(193, 225))
PUSH == Forms1("push", Stack(197, 229))
EX ==
  Forms2("ex", Id("af"), {Operand(Id("af'"), <<8>>)})
    \cup Forms2("ex", Id("de"), {Operand(Id("hl"), <<235>>)})
    \cup Forms2("ex", IdRef("sp"), {Operand(Id("hl"), <<227>>)} \cup Indexes(227))
----------------------------------------------------------------------------
(* Input, output and the interrupt mode *)
IM == Forms1("im", {Operand(Lit(0, FALSE), <<237, 70>>), Operand(Lit(1, FALSE), <<237, 86>>),
                    Operand(Lit(2, FALSE), <<237, 94>>)})
INP ==
  Forms2("in", Id("a"), Behind(<<219>>, try_get_arg_8imm(TRUE, <<Patch(2, 1)>>)))
    \cup FormsTo("in", Behind(<<237>>, Registers(64, 8) \cup {Operand(Id("f"), <<112>>)}), IdRef("c"))
OUT ==
  FormsTo("out", Behind(<<211>>, try_get_arg_8imm(TRUE, <<Patch(1, 1)>>)), Id("a"))
    \cup Forms2("out", IdRef("c"), Behind(<<237>>, Registers(65, 8) \cup {Operand(Lit(0, FALSE), <<113>>)}))
----------------------------------------------------------------------------
(* LD, by its first operand.  LD A tries an address before an immediate,   *)
(* LD rr an immediate before an address: when the operand is unresolved    *)
(* the attempt that fails has already noted a place.                       *)
LoadRegister ==
  UNION {Forms2("ld", Id(r),
           Registers(64 + 8 * gpr8[r], 1) \cup Memory(70 + 8 * gpr8[r])
             \cup Halves(64 + 8 * gpr8[r], 1)
             \cup Behind(<<6 + 8 * gpr8[r]>>,
                    try_get_arg_8imm(FALSE, IF r = "a" THEN <<Patch(1, 2), Patch(2, 1)>>
                                                       ELSE <<Patch(2, 1)>>))) : r \in DOMAIN gpr8}
LoadAccumulator ==
  Forms2("ld", Id("a"),
    {Operand(IdRef("bc"), <<10>>), Operand(IdRef("de"), <<26>>),
     Operand(Id("i"), <<237, 87>>), Operand(Id("r"), <<237, 95>>)}
      \cup Behind(<<58>>, try_get_arg_16imm(TRUE, <<Patch(1, 2)>>)))
StoreAccumulator ==
  FormsTo("ld", {Operand(IdRef("bc"), <<2>>), Operand(IdRef("de"), <<18>>),
                 Operand(Id("i"), <<237, 71>>), Operand(Id("r"), <<237, 79>>)}, Id("a"))
LoadMemory ==
  UNION {FormsTo("ld", Memory(112 + gpr8[r]), Id(r)) : r \in DOMAIN gpr8}
    \cup Forms2("ld", IdRef("hl"), Behind(<<54>>, try_get_arg_8imm(FALSE, <<Patch(1, 1)>>)))
    \cup UNION {Forms2("ld", o.arg, Behind(o.code, try_get_arg_8imm(FALSE, <<Patch(3, 1)>>))) :
                  o \in try_get_arg_index_offset8(54)}
LoadHL ==
  Forms2("ld", Id("hl"),
    Behind(<<42>>, try_get_arg_16imm(TRUE, <<Patch(1, 2)>>))
      \cup Behind(<<33>>, try_get_arg_16imm(FALSE, <<Patch(1, 2), Patch(1, 2)>>)))
StoreAddress ==
  LET To(code) == Behind(code, Resolved(try_get_arg_16imm(TRUE, <<>>)))
  IN FormsTo("ld", To(<<50>>), Id("a"))
       \cup FormsTo("ld", To(<<34>>), Id("hl"))
       \cup UNION {FormsTo("ld", To(<<index[i], 34>>), Id(i)) : i \in DOMAIN index}
       \cup UNION {FormsTo("ld", To(<<237, 67 + 16 * qreg16[q]>>), Id(q)) : q \in {"bc", "de", "sp"}}
LoadPair ==
  Forms2("ld", Id("sp"), {Operand(Id("hl"), <<249>>)} \cup Indexes(249))
    \cup UNION {Forms2("ld", Id(q),
           Behind(<<1 + 16 * qreg16[q]>>, try_get_arg_16imm(FALSE, <<Patch(1, 2)>>))
             \cup Behind(<<237, 75 + 16 * qreg16[q]>>,
                    try_get_arg_16imm(TRUE, <<Patch(1, 2), Patch(2, 2)>>))) : q \in {"bc", "de", "sp"}}
LoadIndex ==
  UNION {Forms2("ld", Id(i),
    Behind(<<index[i], 33>>, try_get_arg_16imm(FALSE, <<Patch(2, 2)>>))
      \cup Behind(<<index[i], 42>>, try_get_arg_16imm(TRUE, <<Patch(2, 2), Patch(2, 2)>>))) :
        i \in DOMAIN index}
LoadHalf ==
  UNION {Forms2("ld", Id(x),
    Behind(<<half[x][1]>>,
      Registers(64 + 8 * half[x][2], 1)
        \cup Behind(<<6 + 8 * half[x][2]>>, try_get_arg_8imm(FALSE, <<Patch(2, 1)>>))
        \cup {Operand(Id(y), <<64 + 8 * half[x][2] + half[y][2]>>) : y \in DOMAIN half})) :
          x \in DOMAIN half}
LD == LoadRegister \cup LoadAccumulator \cup StoreAccumulator \cup LoadMemory \cup LoadHL
        \cup StoreAddress \cup LoadPair \cup LoadIndex \cup LoadHalf
----------------------------------------------------------------------------
(* Mnemonics without operands *)
Plain == [ccf |-> 63, cpl |-> 47, daa |-> 39, di |-> 243, ei |-> 251, exx |-> 217, halt |-> 118,
          nop |-> 0, rla |-> 23, rlca |-> 7, rra |-> 31, rrca |-> 15, scf |-> 55]
Extended == [cpd |-> 169, cpdr |-> 185, cpi |-> 161, cpir |-> 177, neg |-> 68,
             ind |-> 170, indr |-> 186, ini |-> 162, inir |-> 178,
             ldd |-> 168, lddr |-> 184, ldi |-> 160, ldir |-> 176,
             outd |-> 171, otdr |-> 187, outi |-> 163, otir |-> 179,
             reti |-> 77, retn |-> 69, rld |-> 111, rrd |-> 103]

(* The forms of a mnemonic.                                                *)
compile_instruction_impl(m) ==
  CASE m = "add" -> ADD [] m = "adc" -> ADC [] m = "sub" -> SUB [] m = "sbc" -> SBC
    [] m = "and" -> AND [] m = "xor" -> XOR [] m = "or" -> OR [] m = "cp" -> CP
    [] m = "inc" -> INC [] m = "dec" -> DEC [] m = "rlc" -> RLC [] m = "rrc" -> RRC
    [] m = "rl" -> RL [] m = "rr" -> RR [] m = "sla" -> SLA [] m = "sra" -> SRA
    [] m = "sll" -> SLL [] m = "srl" -> SRL [] m = "bit" -> BIT [] m = "res" -> RES
    [] m = "set" -> SET [] m = "jp" -> JP [] m = "call" -> CALL [] m = "ret" -> RET
    [] m = "jr" -> JR [] m = "djnz" -> DJNZ [] m = "rst" -> RST [] m = "pop" -> POP
    [] m = "push" -> PUSH [] m = "ex" -> EX [] m = "im" -> IM [] m = "in" -> INP
    [] m = "out" -> OUT [] m = "ld" -> LD
    [] m \in DOMAIN Plain -> {Form0(m, <<Plain[m]>>)}
    [] m \in DOMAIN Extended -> {Form0(m, <<237, Extended[m]>>)}
    [] OTHER -> {}

Mnemonics ==
  DOMAIN Plain \cup DOMAIN Extended \cup
    {"add", "adc", "sub", "sbc", "and", "xor", "or", "cp", "inc", "dec",
     "rlc", "rrc", "rl", "rr", "sla", "sra", "sll", "srl", "bit", "res",
     "set", "jp", "call", "ret", "jr", "djnz", "rst", "pop", "push", "ex",
     "im", "in", "out", "ld"}
Forms == UNION {compile_instruction_impl(m) : m \in Mnemonics}
============================================================================
