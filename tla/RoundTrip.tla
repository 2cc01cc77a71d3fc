----------------------------- MODULE RoundTrip -----------------------------
(* The test script bc80asm/test.sh on the assembler and the disassembler:  *)
(* assemble a source, disassemble the binary, assemble the listing.  An    *)
(* unresolved operand of the source is a label defined further on, which   *)
(* the second pass of the assembler writes into the code.  The listing may *)
(* have labels of its own at the targets of jumps and calls.               *)
EXTENDS Disassembler, SequencesExt, TLC

CONSTANTS
  Sources    \* the sources tried: their instructions, the address at which
             \* the section starts, the value of the label (-1: it has none)
             \* and options of the disassembler: origin, labels, comments

ASSUME SourcesAssumption ==
  \A s \in Sources :
    /\ DOMAIN s = {"program", "start", "symbol", "org", "opt_labels", "opt_source"}
    /\ s.start >= 0 /\ s.symbol >= -1 /\ s.org \in 0 .. 65535

VARIABLES
  source,    \* the source
  step,      \* step of the script
  todo,      \* statements the first pass has still to see
  content,   \* bytes of the section
  places,    \* places noted for the second pass
  symtab,    \* addresses whose label the listing has defined -> its value
  bin1,      \* code of the source
  pos,       \* bytes of bin1 disassembled
  labels_bmp,\* targets of jumps and calls
  listing,   \* instructions of the listing, each with its address
  bin3       \* code of the listing

decoded == <<pos, labels_bmp, listing>>
vars == <<source, step, todo, content, places, symtab, bin1, decoded, bin3>>
----------------------------------------------------------------------------
(* What an instruction is translated to; none, or one form.  A label of    *)
(* the listing is the value it has, or one to be found by the second pass. *)
Label(addr) == [node |-> "LABEL", addr |-> addr, is_ref |-> FALSE]
Evaluated(arg) ==
  IF arg.node # "LABEL" THEN arg
  ELSE IF arg.addr \in DOMAIN symtab THEN Lit(symtab[arg.addr], FALSE) ELSE Unresolved(FALSE)
Translation(i) == {f \in compile_instruction_impl(i.m) : f.args = [j \in DOMAIN i.args |-> Evaluated(i.args[j])]}

(* The place noted for a patch of instruction i at offset: an offset into  *)
(* the section, the width, what to subtract for a jump, and the label.     *)
section_start == IF step = "assemble" THEN source.start ELSE 0
register_fwd_lookup(i, patch, offset) ==
  [at |-> patch.pos + offset + (IF patch.absolute THEN section_start ELSE 0),
   nbytes |-> patch.nbytes,
   instr_pc |-> IF patch.relative THEN section_start + offset + 2 ELSE 0,
   label |-> {i.args[j].addr : j \in {n \in DOMAIN i.args : i.args[n].node = "LABEL"}}]

(* The value of the label, if it has one.                                  *)
Values(place) ==
  IF place.label = {} THEN {source.symbol} \ {-1} ELSE {symtab[a] : a \in place.label \cap DOMAIN symtab}

(* What lies past the end of the content is never written to the output.   *)
render_patch(place, value) ==
  [k \in DOMAIN content |->
     IF k = place.at + 1 THEN Low(value - place.instr_pc)
     ELSE IF k = place.at + 2 /\ place.nbytes = 2 THEN High(value) ELSE content[k]]

(* The four bytes the decoder may look at; it reads past the end, but no   *)
(* complete instruction depends on what is there.                          *)
Window(k) == [j \in 1 .. 4 |-> IF k + j <= Len(bin1) THEN bin1[k + j] ELSE 0]
----------------------------------------------------------------------------
Init ==
  /\ source \in Sources
  /\ step = "assemble" /\ todo = source.program
  /\ content = <<>> /\ places = <<>> /\ symtab = <<>>
  /\ bin1 = <<>> /\ pos = 0 /\ labels_bmp = {} /\ listing = <<>> /\ bin3 = <<>>

Assembling == step \in {"assemble", "reassemble"}

(* Statements of the first pass.                                           *)
At(m) == Assembling /\ todo # <<>> /\ Head(todo).m = m

compile_org ==
  /\ At("org")
  /\ content' = [j \in 1 .. Head(todo).addr |-> 0]
  /\ todo' = Tail(todo)
  /\ UNCHANGED <<source, step, places, symtab, bin1, decoded, bin3>>

compile_label ==
  /\ At("label")
  /\ symtab' = (Head(todo).addr :> Len(content)) @@ symtab
  /\ todo' = Tail(todo)
  /\ UNCHANGED <<source, step, content, places, bin1, decoded, bin3>>

compile_instr ==
  /\ Assembling /\ todo # <<>> /\ Head(todo).m \notin {"org", "label"}
  /\ \/ \E f \in Translation(Head(todo)) :
          /\ content' = content \o f.code
          /\ places' = places \o [j \in DOMAIN f.patches |->
                                    register_fwd_lookup(Head(todo), f.patches[j], Len(content))]
          /\ UNCHANGED step
     \/ /\ Translation(Head(todo)) = {}
        /\ step' = "failed"
        /\ UNCHANGED <<content, places>>
  /\ todo' = Tail(todo)
  /\ UNCHANGED <<source, symtab, bin1, decoded, bin3>>

(* A place of the second pass.                                             *)
resolve ==
  /\ Assembling /\ todo = <<>> /\ places # <<>>
  /\ \/ \E v \in Values(Head(places)) :
          content' = render_patch(Head(places), v) /\ UNCHANGED step
     \/ /\ Values(Head(places)) = {}
        /\ step' = "failed"
        /\ UNCHANGED content
  /\ places' = Tail(places)
  /\ UNCHANGED <<source, todo, symtab, bin1, decoded, bin3>>

render_finish ==
  /\ Assembling /\ todo = <<>> /\ places = <<>>
  /\ IF step = "assemble" THEN bin1' = content /\ step' = "disassemble" /\ UNCHANGED bin3
                          ELSE bin3' = content /\ step' = "compare" /\ UNCHANGED bin1
  /\ content' = <<>>
  /\ UNCHANGED <<source, todo, places, symtab, decoded>>

(* One turn of the loop of disassemble().                                  *)
Targets(i) == {i.args[j].ival : j \in {n \in DOMAIN i.args : i.m \in {"jp", "call"} /\ i.args[n].node = "LITERAL"}}
disassemble ==
  /\ step = "disassemble"
  /\ LET i == Decode(Window(pos))
     IN /\ listing' = Append(listing, [m |-> i.m, args |-> i.args, addr |-> source.org + pos, isize |-> i.isize])
        /\ labels_bmp' = labels_bmp \cup Targets(i)
        /\ pos' = pos + i.isize
  /\ step' = IF pos' < Len(bin1) THEN "disassemble" ELSE "render"
  /\ UNCHANGED <<source, todo, content, places, symtab, bin1, bin3>>

(* The listing: ORG, the instructions with the labels before them and in   *)
(* the place of addresses, and the bytes in the comment.                   *)
Named16(arg, i) ==
  IF source.opt_labels /\ i.m \in {"jp", "call"} /\ arg.node = "LITERAL" /\ arg.ival \in labels_bmp
    THEN Label(arg.ival) ELSE arg
Dump(i) == [j \in 1 .. i.isize |-> IF i.addr + j <= Len(bin1) THEN bin1[i.addr + j] ELSE -1]
Line(i) ==
  [m |-> i.m, args |-> [j \in DOMAIN i.args |-> Named16(i.args[j], i)],
   dump |-> IF source.opt_source THEN Dump(i) ELSE <<>>]
disas_render_text ==
  /\ step = "render"
  /\ listing' = [k \in DOMAIN listing |-> Line(listing[k])]
  /\ todo' = <<[m |-> "org", addr |-> source.org]>> \o
              FlattenSeq([k \in DOMAIN listing |->
                            (IF source.opt_labels /\ listing[k].addr \in labels_bmp
                               THEN <<[m |-> "label", addr |-> listing[k].addr]>> ELSE <<>>)
                              \o <<listing'[k]>>])
  /\ step' = "reassemble"
  /\ UNCHANGED <<source, content, places, symtab, bin1, pos, labels_bmp, bin3>>

Next ==
  \/ compile_org \/ compile_label \/ compile_instr \/ resolve \/ render_finish
  \/ disassemble \/ disas_render_text

Spec == Init /\ [][Next]_vars
----------------------------------------------------------------------------
(* A source that assembles has a listing that assembles to the same binary *)
(* (test.sh, steps 3 and 4), at its origin, whatever is left to labels:    *)
(* each name in the listing is defined, at the address it stands for.      *)
SameBinary ==
  /\ step = "compare" => bin3 = [j \in 1 .. source.org |-> 0] \o bin1
  /\ step = "failed" => bin1 = <<>>

(* The label of the source replaced by its value; pc is the address of the *)
(* instruction, of which only the first one has a label.                   *)
Known(i, pc) ==
  [i EXCEPT !.args =
     [j \in DOMAIN @ |->
        IF @[j].node # "UNRESOLVED" THEN @[j]
        ELSE IF i.m \in {"jr", "djnz"} THEN Here(source.symbol - pc) ELSE Lit(source.symbol, @[j].is_ref)]]

(* A label may be defined before or after its use: the two passes give the *)
(* code that the value itself would have given, all other code unchanged,  *)
(* and reject what it would not fit ("will patch operand position with     *)
(* literal value at 2nd pass", instruction.c).                             *)
Code(i) == (CHOOSE f \in Translation(i) : TRUE).code
ForwardAsKnown ==
  step = "disassemble" /\ pos = 0 =>
    LET known == [k \in DOMAIN source.program |->
                    Known(source.program[k], source.start)]
    IN /\ \A k \in DOMAIN known : Translation(known[k]) # {}
       /\ bin1 = FlattenSeq([k \in DOMAIN known |-> Code(known[k])])

(* A listing shows the instructions that were written, numbers as the      *)
(* bytes they became: no instruction has the code of another one.  The     *)
(* comment shows the bytes of the instruction.                             *)
Shows(shown, written) ==
  \/ shown = written
  \/ shown.node = "LABEL" /\ written = Lit(shown.addr, FALSE)
  \/ /\ shown.node = "LITERAL" /\ written = [shown EXCEPT !.ival = written.ival]
     /\ (shown.ival - written.ival) % 256 = 0
  \/ /\ shown.node = "EXPR" /\ written = [shown EXCEPT !.offset = written.offset]
     /\ (shown.offset - written.offset) % 256 = 0

ListingFaithful ==
  step = "compare" =>
    /\ Len(listing) = Len(source.program)
    /\ \A k \in DOMAIN listing :
         LET written == Known(source.program[k], source.start)
         IN /\ listing[k].m = written.m
            /\ Len(listing[k].args) = Len(written.args)
            /\ source.opt_source => listing[k].dump = Code(written)
            /\ \A j \in DOMAIN listing[k].args : Shows(listing[k].args[j], written.args[j])
============================================================================
