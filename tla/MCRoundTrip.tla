---------------------------- MODULE MCRoundTrip ----------------------------
(* Sources for RoundTrip: every instruction on its own, and every          *)
(* instruction whose operand is a label defined later, with another one    *)
(* behind it.  Pairs of jumps and calls have a listing with labels.  Five  *)
(* groups, in which the program is known to fail, can be left out.         *)
EXTENDS RoundTrip

CONSTANTS Misprinted, Aliased, Misplaced, Unmarked, Shifted  \* BOOLEAN: is the group included

MCWords == {0, 1, 3, 52, 55, 120, 4660, 65535, -1}
MCBytes == {0, 44, 52, 120, 128, 255, -1, 300}
MCOffsets == {-128, -56, 0, 5, 127, 200}
MCJumps == {-130, -127, -126, -1, 0, 2, 36, 52, 104, 120, 127, 128, 129, 130}

Halfs == DOMAIN half

(* The listing of the disassembler cannot be assembled again.              *)
IsMisprinted(i) ==
  \/ i.m = "in" /\ i.args[1] = Id("f")
  \/ i.m = "out" /\ i.args[2] = Lit(0, FALSE)
  \/ i.m \in {"jr", "djnz"} /\ \E k \in DOMAIN i.args : i.args[k].node = "PC" /\ i.args[k].offset > 127

(* Two instructions with one code: h, l and the halves of the other index  *)
(* register are not there behind the prefix of an index register.          *)
IsAliased(i) ==
  /\ i.m = "ld" /\ \A k \in 1 .. 2 : i.args[k].node = "ID" /\ ~i.args[k].is_ref
  /\ \E k \in 1 .. 2 :
       /\ i.args[k].name \in Halfs
       /\ \/ i.args[3 - k].name \in {"h", "l"}
          \/ i.args[3 - k].name \in Halfs /\ half[i.args[3 - k].name][1] # half[i.args[k].name][1]

(* The place noted for a label is not the place of its operand.            *)
HasLabel(i) == \E k \in DOMAIN i.args : i.args[k].node = "UNRESOLVED"
IsMisplaced(i) ==
  /\ HasLabel(i)
  /\ \/ i.m \in {"add", "adc", "and", "cp", "in"}
     \/ i.m = "ld" /\ i.args[1].node = "ID" /\ i.args[1].name \in DOMAIN gpr8 /\ ~i.args[1].is_ref
          /\ ~i.args[2].is_ref
     \/ i.m = "ld" /\ i.args[1] \in {Id("bc"), Id("de"), Id("sp")} /\ i.args[2].is_ref

Selected ==
  {i \in {[m |-> f.m, args |-> f.args] : f \in Forms} :
     /\ IsMisprinted(i) => Misprinted
     /\ IsAliased(i) => Aliased
     /\ IsMisplaced(i) => Misplaced}
Following == [m |-> "ld", args |-> <<Id("b"), Lit(255, FALSE)>>]
Rejected ==
  {[m |-> "ld", args |-> <<IdRef("hl"), IdRef("hl")>>], [m |-> "jr", args |-> <<Here(130)>>],
   [m |-> "rst", args |-> <<Lit(4, FALSE)>>]}
Plainly(program, start, symbol) ==
  [program |-> program, start |-> start, symbol |-> symbol, org |-> 0, opt_labels |-> FALSE, opt_source |-> TRUE]

(* Labels: the targets are the two instructions of a program at org, or    *)
(* (Unmarked) some that are not.  The bytes are those at an offset of addr *)
(* (Shifted).                                                              *)
Jump(t) ==
  {[m |-> m, args |-> args] : m \in {"jp", "call"}, args \in {<<Lit(t, FALSE)>>, <<Id("nz"), Lit(t, FALSE)>>}}
Jumping(org) ==
  LET jumps == UNION {Jump(t) : t \in {org, org + 3} \cup IF Unmarked THEN {1, 120} ELSE {}}
  IN {[Plainly(<<i, j>>, org, 0) EXCEPT !.org = org, !.opt_labels = TRUE, !.opt_source = org = 0 \/ Shifted] :
        i, j \in jumps}
MCSources ==
  {Plainly(<<i>>, 0, 0) : i \in Rejected \cup {j \in Selected : ~HasLabel(j)}}
    \cup {Plainly(<<i, Following>>, start, symbol) :
             i \in {j \in Selected : HasLabel(j)}, start \in {0, 16}, symbol \in {52, 120}}
    \cup {Plainly(<<[m |-> "jp", args |-> <<Unresolved(FALSE)>>]>>, 0, -1)}
    \cup UNION {Jumping(org) : org \in {0, 52}}
============================================================================
