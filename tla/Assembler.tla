----------------------------- MODULE Assembler -----------------------------
(* compile() of asm/compile.c with the evaluation of expressions, the      *)
(* symbol table and the rendering of section contents it calls: the first  *)
(* pass takes one statement a step, the second one patch a step.           *)
(*                                                                         *)
(* The operand of a statement is an expression: val is its tokens, tree    *)
(* what the parser makes of them.  The nodes of the tokens are shared by   *)
(* the symbol table, the patches and later evaluations, and evaluation     *)
(* writes into them: program is therefore a variable.                      *)
EXTENDS Expressions, SequencesExt, TLC

CONSTANTS
  Programs,    \* the parsed sources
  LocalNames   \* names that begin with a dot

VARIABLES
  program,            \* statements, as evaluation has left their operands
  k,                  \* statement the first pass is at
  status,             \* "pass1", "pass2", "done", "error" or "undefined"
  sections,
  curr_section_id,
  symtab,             \* name and suffix -> value
  curr_global_label,  \* <<>> before the first one
  repts,              \* stack of REPT blocks
  conditions,         \* stack of IF blocks
  patches,
  in_profile,
  source              \* the program as it was parsed

blocks == <<repts, conditions>>
symbols == <<symtab, curr_global_label>>
output == <<sections, curr_section_id>>
vars == <<program, k, status, output, symbols, blocks, patches, in_profile, source>>

Section == sections[curr_section_id]
curr_pc == Section.curr_pc
Stmt == program[k]

Low(v) == v % 256
High(v) == (v \div 256) % 256
----------------------------------------------------------------------------
(* Results of expr_eval: a number, a string, the counter of the REPT block *)
(* at a statement, or, unevaluated, an operand ("node") or a copy of an    *)
(* expression with its evaluated operands ("expr").                        *)
Number(v) == INT(v)
Counter(at) == [k |-> "var", at |-> at]
Failed == [k |-> "failed"]
Undefined == [k |-> "undefined"]

IsNumber(r) == r.k = "int"
IsUnresolved(r) == r.k \in {"node", "expr"}
IsName(r) == r.k = "node" /\ program[r.at].val[r.tok].k = "id"

Suffix == [r \in DOMAIN repts |-> repts[r].counter]

(* hashmap_get of a name and, when the first pass has left it to the       *)
(* second, of its form inside the REPT block.                              *)
Lookup(name, suffix) ==
  IF <<name, <<>>>> \in DOMAIN symtab THEN {symtab[<<name, <<>>>>]}
  ELSE IF suffix # <<>> /\ <<name, suffix>> \in DOMAIN symtab THEN {symtab[<<name, suffix>>]}
  ELSE {}

(* The counter variable is freed at the end of its block.                  *)
Running(at) == {r \in DOMAIN repts : repts[r].start_iter = at}

Read(r) ==
  IF r.k # "var" THEN r
  ELSE IF Running(r.at) = {} THEN Undefined
  ELSE Number(repts[CHOOSE n \in Running(r.at) : TRUE].counter)

make_inherited_expr(e, args) == [e EXCEPT !.args = args]

(* An operator on evaluated operands, one or two.                          *)
Each(F(_), args) == IF Len(args) = 1 THEN <<F(args[1])>> ELSE <<F(args[1]), F(args[2])>>

Operation(e, args) ==
  LET values == Each(Read, args)
      bad == {j \in DOMAIN args : values[j] \in {Failed, Undefined}}
  IN CASE bad # {} -> values[CHOOSE j \in bad : \A n \in bad : j <= n]
       [] bad = {} /\ e.op = "/" /\ values[2] = Number(0) -> Failed
       [] OTHER ->
            IF \E j \in DOMAIN args : ~IsNumber(values[j]) THEN make_inherited_expr(e, args)
            ELSE IF Len(args) = 1 THEN Number(Unary(e.op, values[1].v))
            ELSE IF NoMeaning(e.op, values[1].v, values[2].v) THEN Undefined
            ELSE Number(Binary(e.op, values[1].v, values[2].v))

RECURSIVE expr_eval(_, _, _, _)
expr_eval(e, suffix, inEqu, depth) ==
  LET token == program[e.at].val[e.tok]
      found == IF token.k = "id" THEN Lookup(token.name, suffix) ELSE {}
  IN IF depth = 0 THEN Undefined
     ELSE IF e.k \notin {"node", "expr"} THEN e
     ELSE IF e.k = "expr" THEN
       IF e.op = "+" /\ Len(e.args) = 1 THEN expr_eval(e.args[1], suffix, inEqu, depth)
       ELSE LET eval(arg) == expr_eval(arg, suffix, inEqu, depth)
            IN CHOOSE r \in {Operation(e, args) : args \in {Each(eval, e.args)}} : TRUE
     ELSE
       CASE token.k = "int" -> token
         [] token.k = "str" -> IF Len(token.bytes) = 1 THEN Number(token.bytes[1]) ELSE token
         [] token.k = "dollar" -> IF inEqu THEN e ELSE Number(curr_pc)
         [] token.k = "id" -> IF found = {} THEN e
                              ELSE expr_eval(CHOOSE sym \in found : TRUE, suffix, inEqu, depth - 1)

(* The $ that evaluation reaches become numbers in the tree.               *)
RECURSIVE Dollars(_, _, _)
Dollars(e, suffix, depth) ==
  LET token == program[e.at].val[e.tok]
  IN CASE depth > 0 /\ e.k = "node" ->
            IF token.k = "dollar" THEN {<<e.at, e.tok>>}
            ELSE IF token.k = "id" THEN UNION {Dollars(sym, suffix, depth - 1) : sym \in Lookup(token.name, suffix)}
            ELSE {}
       [] depth > 0 /\ e.k = "expr" -> UNION {Dollars(e.args[j], suffix, depth) : j \in DOMAIN e.args}
       [] OTHER -> {}

Depth == Len(program) + 1
Operand == Stmt.tree
Value == LET r == expr_eval(Operand, <<>>, Stmt.s = "equ", Depth) IN IF Stmt.s = "equ" THEN r ELSE Read(r)
eval_literal(e, suffix) ==
  LET here == Dollars(e, suffix, Depth)
  IN [j \in DOMAIN program |->
        IF \E d \in here : d[1] = j
          THEN [program[j] EXCEPT !.val = [n \in DOMAIN @ |-> IF <<j, n>> \in here THEN Number(curr_pc) ELSE @[n]]]
          ELSE program[j]]

(* Parentheses around a number that was computed are forgotten.            *)
RECURSIVE is_ref(_, _)
is_ref(e, r) ==
  IF e.k = "node" THEN e.is_ref
  ELSE IF e.op = "+" /\ Len(e.args) = 1 THEN is_ref(e.args[1], r)
  ELSE e.is_ref /\ ~IsNumber(r)
----------------------------------------------------------------------------
(* Rendering into the current section.                                     *)
render_bytes(bytes) ==
  sections' = [sections EXCEPT ![curr_section_id].content = @ \o bytes,
                               ![curr_section_id].curr_pc = @ + Len(bytes)]
Fill(v, n) == [j \in 1 .. n |-> Low(v)]

Place(r, pos, nbytes, relative) ==
  [node |-> r, pos |-> pos, nbytes |-> nbytes, relative |-> relative, instr_pc |-> curr_pc + 2,
   section_id |-> curr_section_id, rept_suffix |-> Suffix]

(* A local name is completed in the tree, unless it is part of an          *)
(* expression.                                                             *)
Complete(prog, r) ==
  IF ~IsName(r) \/ curr_global_label = <<>> THEN prog
  ELSE LET name == prog[r.at].val[r.tok].name
       IN IF Len(name) = 1 /\ name[1] \in LocalNames
            THEN [prog EXCEPT ![r.at].val[r.tok].name = curr_global_label \o name] ELSE prog

Reject == status' = "error" /\ UNCHANGED <<k, source, sections, program, patches>>
Evaluated == program' = eval_literal(Operand, <<>>)
register_fwd_lookup(r, pos, nbytes, relative) ==
  /\ patches' = Append(patches, Place(r, pos, nbytes, relative))
  /\ program' = Complete(eval_literal(Operand, <<>>), r)

condition_allow == conditions # <<>> => conditions[Len(conditions)].cond_value
At(s) == status = "pass1" /\ k <= Len(program) /\ condition_allow /\ Stmt.s = s
Forward == k' = k + 1 /\ UNCHANGED <<status, source>>
report_error == status' = "error" /\ UNCHANGED <<program, k, output, symbols, blocks, patches, in_profile, source>>
undefined == status' = "undefined" /\ UNCHANGED <<program, k, output, symbols, blocks, patches, in_profile, source>>
----------------------------------------------------------------------------
parse_source(src) ==
  [j \in DOMAIN src |-> IF "val" \in DOMAIN src[j] THEN [tree |-> Tree(src[j].val, j)] @@ src[j] ELSE src[j]]

Init ==
  /\ source \in Programs /\ program = parse_source(source)
  /\ k = 1 /\ status = "pass1"
  /\ sections = <<[name |-> ".text", start |-> 0, curr_pc |-> 0, filler |-> 0, content |-> <<>>]>>
  /\ curr_section_id = 1
  /\ symtab = <<>> /\ curr_global_label = <<>>
  /\ repts = <<>> /\ conditions = <<>> /\ patches = <<>>
  /\ in_profile = FALSE

(* Statements whose operand would make expr_eval recurse for ever, read a  *)
(* counter that is freed, or divide by zero, which is noticed for / alone. *)
WithOperand == \E s \in {"equ", "org", "db", "dw", "ds", "jp", "jr", "ld", "if", "rept", "section"} : At(s)
Broken == WithOperand /\ Value = Undefined /\ undefined
division_by_zero == WithOperand /\ Value = Failed /\ report_error
Fine == Value \notin {Undefined, Failed}

compile_equ ==
  /\ At("equ") /\ Fine
  /\ symtab' = (<<Stmt.name, <<>>>> :> Value) @@ symtab
  /\ Forward
  /\ UNCHANGED <<program, output, curr_global_label, blocks, patches, in_profile>>

(* SECTION with a base, or (none) behind the current section.              *)
compile_section ==
  /\ At("section") /\ Fine
  /\ IF Stmt.name = Section.name THEN Forward /\ UNCHANGED <<output, program>>
     ELSE LET base == IF Stmt.base THEN Value ELSE Number(curr_pc)
          IN IF (\E j \in DOMAIN sections : sections[j].name = Stmt.name) \/ ~IsNumber(base)
               THEN status' = "error" /\ UNCHANGED <<k, source, output, program>>
             ELSE IF base.v \notin 0 .. 65535
               THEN status' = "error" /\ UNCHANGED <<k, source, output, program>>
             ELSE /\ sections' = Append(sections, [name |-> Stmt.name, start |-> base.v, curr_pc |-> base.v,
                                                   filler |-> Stmt.fill, content |-> <<>>])
                  /\ curr_section_id' = Len(sections) + 1
                  /\ Forward /\ Evaluated
  /\ UNCHANGED <<symbols, blocks, patches, in_profile>>

(* ORG: forward the gap is filled, backward only the position changes.     *)
render_reorg(v) ==
  sections' = [sections EXCEPT ![curr_section_id].curr_pc = v,
                 ![curr_section_id].content = @ \o Fill(Section.filler, v - Section.start - Len(@))]

compile_org ==
  /\ At("org") /\ Fine
  /\ IF IsNumber(Value) /\ Value.v \in Section.start .. 65535
       THEN render_reorg(Value.v) /\ Forward /\ Evaluated
       ELSE status' = "error" /\ UNCHANGED <<k, source, sections, program>>
  /\ UNCHANGED <<curr_section_id, symbols, blocks, patches, in_profile>>

(* DEFS: n copies of a filler that may be known later.                     *)
compile_ds ==
  /\ At("ds") /\ Fine
  /\ \/ /\ IsNumber(Value)
        /\ render_bytes(Fill(Value.v, Stmt.n))
        /\ Forward /\ Evaluated /\ UNCHANGED patches
     \/ /\ IsUnresolved(Value)
        /\ render_bytes(Fill(0, Stmt.n))
        /\ Forward /\ register_fwd_lookup(Value, curr_pc, Stmt.n, FALSE)
     \/ Value.k = "str" /\ Reject
  /\ UNCHANGED <<curr_section_id, symbols, blocks, in_profile>>

(* DEFB and DEFW; the place of a name is the address, not the offset.      *)
Bytes(nbytes, v) == IF nbytes = 1 THEN <<Low(v)>> ELSE <<Low(v), High(v)>>
compile_def(nbytes) ==
  /\ \/ /\ IsNumber(Value)
        /\ render_bytes(Bytes(nbytes, Value.v))
        /\ Forward /\ Evaluated /\ UNCHANGED patches
     \/ /\ IsName(Value)
        /\ render_bytes(Bytes(nbytes, 0))
        /\ Forward /\ register_fwd_lookup(Value, curr_pc, nbytes, FALSE)
     \/ /\ Value.k = "str" /\ nbytes = 1
        /\ render_bytes(Value.bytes)
        /\ Forward /\ Evaluated /\ UNCHANGED patches
     \/ (Value.k = "expr" \/ (Value.k = "str" /\ nbytes = 2)) /\ Reject
  /\ UNCHANGED <<curr_section_id, symbols, blocks, in_profile>>
compile_db == At("db") /\ Fine /\ compile_def(1)
compile_dw == At("dw") /\ Fine /\ compile_def(2)

(* A label gets the position as its value; inside REPT blocks its name     *)
(* gets the counters, and is compared with the names without them.         *)
compile_label ==
  /\ At("label")
  /\ LET local == Stmt.name[1] \in LocalNames
         name == IF local THEN curr_global_label \o Stmt.name ELSE Stmt.name
     IN IF (local /\ curr_global_label = <<>>) \/ <<name, <<>>>> \in DOMAIN symtab
          THEN status' = "error" /\ UNCHANGED <<k, source, symbols>>
          ELSE /\ symtab' = (<<name, Suffix>> :> Number(curr_pc)) @@ symtab
               /\ curr_global_label' = IF local THEN curr_global_label ELSE name
               /\ Forward
  /\ UNCHANGED <<program, output, blocks, patches, in_profile>>

(* Three instructions stand for all: JP with an address, whose place is an *)
(* offset into the section, a relative jump, and LD HL, which loads from   *)
(* an address in parentheses.                                              *)
imm_pos == curr_pc - Section.start + 1

compile_jp ==
  /\ At("jp") /\ Fine
  /\ LET ref == is_ref(Operand, Value)
     IN \/ /\ IsNumber(Value) /\ ~ref
           /\ render_bytes(<<195>> \o Bytes(2, Value.v))
           /\ Forward /\ Evaluated /\ UNCHANGED patches
        \/ /\ IsUnresolved(Value) /\ ~ref
           /\ render_bytes(<<195, 0, 0>>)
           /\ Forward /\ register_fwd_lookup(Value, imm_pos, 2, FALSE)
        \/ (ref \/ Value.k = "str") /\ Reject
  /\ UNCHANGED <<curr_section_id, symbols, blocks, in_profile>>

compile_jr ==
  /\ At("jr") /\ Fine
  /\ \/ /\ IsNumber(Value) /\ Value.v - curr_pc - 2 \in -128 .. 127 /\ ~is_ref(Operand, Value)
        /\ render_bytes(<<24, Low(Value.v - curr_pc - 2)>>)
        /\ Forward /\ Evaluated /\ UNCHANGED patches
     \/ /\ \/ IsNumber(Value) /\ (Value.v - curr_pc - 2 \notin -128 .. 127 \/ is_ref(Operand, Value))
           \/ Value.k = "str"
        /\ Reject
     \/ /\ IsUnresolved(Value)
        /\ render_bytes(<<24, 0>>)
        /\ Forward /\ register_fwd_lookup(Value, imm_pos, 1, TRUE)
  /\ UNCHANGED <<curr_section_id, symbols, blocks, in_profile>>

(* Both forms of LD HL are tried: a place that is known later is noted     *)
(* twice when the second one fits.                                         *)
LoadHL(ref) == IF ref THEN 42 ELSE 33
compile_ld ==
  /\ At("ld") /\ Fine
  /\ LET ref == is_ref(Operand, Value)
         place == Place(Value, imm_pos, 2, FALSE)
     IN \/ /\ IsNumber(Value)
           /\ render_bytes(<<LoadHL(ref)>> \o Bytes(2, Value.v))
           /\ Forward /\ Evaluated /\ UNCHANGED patches
        \/ /\ IsUnresolved(Value)
           /\ render_bytes(<<LoadHL(ref), 0, 0>>)
           /\ patches' = patches \o (IF ref THEN <<place>> ELSE <<place, place>>)
           /\ Forward /\ program' = Complete(eval_literal(Operand, <<>>), Value)
        \/ Value.k = "str" /\ Reject
  /\ UNCHANGED <<curr_section_id, symbols, blocks, in_profile>>
----------------------------------------------------------------------------
(* Blocks *)
compile_rept ==
  /\ At("rept") /\ Fine
  /\ IF ~IsNumber(Value) \/ (Stmt.name # <<>> /\ <<Stmt.name, <<>>>> \in DOMAIN symtab)
       THEN status' = "error" /\ UNCHANGED <<k, source, symtab, repts, program>>
       ELSE /\ repts' = Append(repts, [start_iter |-> k, count |-> Value.v, counter |-> 0, varname |-> Stmt.name])
            /\ symtab' = IF Stmt.name = <<>> THEN symtab ELSE (<<Stmt.name, <<>>>> :> Counter(k)) @@ symtab
            /\ Forward /\ Evaluated
  /\ UNCHANGED <<output, curr_global_label, conditions, patches, in_profile>>

Top == repts[Len(repts)]

\* Mutant: one turn more.
compile_endr_again_OneMore ==
  /\ At("endr") /\ repts # <<>> /\ Top.counter < Top.count
  /\ repts' = [repts EXCEPT ![Len(repts)].counter = @ + 1]
  /\ k' = Top.start_iter + 1
  /\ UNCHANGED <<program, status, source, output, symbols, conditions, patches, in_profile>>

(* ENDR: back to the first statement of the block, or out of it.           *)
compile_endr_again ==
  /\ At("endr") /\ repts # <<>> /\ Top.counter < Top.count - 1
  /\ repts' = [repts EXCEPT ![Len(repts)].counter = @ + 1]
  /\ k' = Top.start_iter + 1
  /\ UNCHANGED <<program, status, source, output, symbols, conditions, patches, in_profile>>

\* Mutant: the name of the counter stays.
compile_endr_last_KeepsName ==
  /\ At("endr") /\ repts # <<>> /\ Top.counter >= Top.count - 1
  /\ repts' = Front(repts)
  /\ Forward
  /\ UNCHANGED <<program, output, symbols, conditions, patches, in_profile>>

compile_endr_last ==
  /\ At("endr") /\ repts # <<>> /\ Top.counter >= Top.count - 1
  /\ repts' = Front(repts)
  /\ symtab' = [n \in DOMAIN symtab \ {<<Top.varname, <<>>>>} |-> symtab[n]]
  /\ Forward
  /\ UNCHANGED <<program, output, curr_global_label, conditions, patches, in_profile>>

compile_if ==
  /\ At("if") /\ Fine
  /\ IF IsNumber(Value)
       THEN /\ conditions' = Append(conditions, [cond_value |-> Value.v # 0, inverse |-> FALSE])
            /\ Forward /\ Evaluated
       ELSE status' = "error" /\ UNCHANGED <<k, source, conditions, program>>
  /\ UNCHANGED <<output, symbols, repts, patches, in_profile>>

(* ELSE and ENDIF are seen in a block that is not allowed, too.            *)
AtAnyway(s) == status = "pass1" /\ k <= Len(program) /\ Stmt.s = s
Innermost == conditions[Len(conditions)]

compile_else ==
  /\ AtAnyway("else") /\ conditions # <<>> /\ ~Innermost.inverse
  /\ conditions' = [conditions EXCEPT ![Len(conditions)] = [cond_value |-> ~@.cond_value, inverse |-> TRUE]]
  /\ Forward
  /\ UNCHANGED <<program, output, symbols, repts, patches, in_profile>>

compile_endif ==
  /\ AtAnyway("endif") /\ conditions # <<>>
  /\ conditions' = Front(conditions)
  /\ Forward
  /\ UNCHANGED <<program, output, symbols, repts, patches, in_profile>>

Unmatched ==
  /\ \/ At("endr") /\ repts = <<>>
     \/ AtAnyway("else") /\ (conditions # <<>> => Innermost.inverse)
     \/ AtAnyway("endif") /\ conditions = <<>>
  /\ report_error

\* Mutant: the loop stays at the statement.
Skip_Stays ==
  /\ status = "pass1" /\ k <= Len(program) /\ ~condition_allow /\ Stmt.s \notin {"else", "endif"}
  /\ UNCHANGED vars

Skip ==
  /\ status = "pass1" /\ k <= Len(program) /\ ~condition_allow /\ Stmt.s \notin {"else", "endif"}
  /\ Forward
  /\ UNCHANGED <<program, output, symbols, blocks, patches, in_profile>>

(* Without --profile, PROFILE opens a block and ENDPROFILE does nothing.   *)
compile_profile ==
  /\ At("profile")
  /\ IF in_profile THEN status' = "error" /\ UNCHANGED <<k, source, in_profile>>
                   ELSE in_profile' = TRUE /\ Forward
  /\ UNCHANGED <<program, output, symbols, blocks, patches>>

compile_endprofile ==
  /\ At("endprofile")
  /\ Forward
  /\ UNCHANGED <<program, output, symbols, blocks, patches, in_profile>>

(* END, or the last statement.                                             *)
EndOfPass ==
  /\ status = "pass1"
  /\ k > Len(program) \/ At("end")
  /\ status' = IF repts # <<>> \/ conditions # <<>> THEN "error" ELSE "pass2"
  /\ UNCHANGED <<program, k, source, output, symbols, blocks, patches, in_profile>>
----------------------------------------------------------------------------
(* Second pass *)
render_patch(p, value) ==
  LET v == IF p.relative THEN value - p.instr_pc ELSE value
  IN sections' = [sections EXCEPT ![p.section_id].content =
       [j \in DOMAIN @ |-> IF j = p.pos + 1 THEN Low(v)
                           ELSE IF j = p.pos + 2 /\ p.nbytes = 2 THEN High(v) ELSE @[j]]]

(* The statement at hand is still the last one of the first pass.  A place *)
(* behind the buffer, which the contents here never enlarge, fails an      *)
(* assertion; one behind the content is not seen in it.                    *)
BUFFER_INIT_SIZE == 1024
Resolve ==
  /\ status = "pass2" /\ patches # <<>>
  /\ LET p == Head(patches)
         last == program[IF k > Len(program) THEN Len(program) ELSE k].s
         v == Read(expr_eval(p.node, p.rept_suffix, last = "equ", Depth))
         inside == p.pos + p.nbytes - 1 < BUFFER_INIT_SIZE
     IN \/ /\ IsNumber(v) /\ inside /\ p.nbytes \in {1, 2}
           /\ render_patch(p, v.v)
           /\ patches' = Tail(patches)
           /\ program' = eval_literal(p.node, p.rept_suffix)
           /\ UNCHANGED status
        \/ /\ v = Undefined \/ (IsNumber(v) /\ ~inside)
           /\ status' = "undefined"
           /\ UNCHANGED <<program, sections, patches>>
        \/ /\ v # Undefined /\ ~(IsNumber(v) /\ (~inside \/ p.nbytes \in {1, 2}))
           /\ status' = "error"
           /\ UNCHANGED <<program, sections, patches>>
  /\ UNCHANGED <<k, source, curr_section_id, symbols, blocks, in_profile>>

Finish ==
  /\ status = "pass2" /\ patches = <<>>
  /\ status' = "done"
  /\ UNCHANGED <<program, k, source, output, symbols, blocks, patches, in_profile>>

Next ==
  \/ Broken \/ division_by_zero \/ compile_equ \/ compile_section \/ compile_org \/ compile_ds \/ compile_db \/ compile_dw
  \/ compile_label \/ compile_jp \/ compile_jr \/ compile_ld \/ compile_rept \/ compile_endr_again
  \/ compile_endr_last \/ compile_if \/ compile_else \/ compile_endif \/ Unmatched \/ Skip
  \/ compile_profile \/ compile_endprofile \/ EndOfPass \/ Resolve \/ Finish

Spec == Init /\ [][Next]_vars /\ WF_vars(Next)
============================================================================
