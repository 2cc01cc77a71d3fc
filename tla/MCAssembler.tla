---------------------------- MODULE MCAssembler ----------------------------
(* Sources for Assembler: all short sequences of plain statements, blocks  *)
(* around some of them, and operands with up to two operators on names     *)
(* that are known before or after.  The sources whose outcome is known to  *)
(* be wrong are in groups of their own, and Known says which are included. *)
EXTENDS AssemblerReference

CONSTANT Known  \* a subset of DOMAIN Groups

a == <<"a">>
b == <<"b">>
i == <<"i">>
x == <<"x">>
dot == <<".l">>

Num(v) == IF v < 0 THEN <<OP("-"), INT(-v)>> ELSE <<INT(v)>>
Two(l, op, r) == l \o <<OP(op)>> \o r
In(e) == <<OP("(")>> \o e \o <<OP(")")>>
Plus(e, n) == IF n = 0 THEN e ELSE Two(e, IF n < 0 THEN "-" ELSE "+", <<INT(IF n < 0 THEN -n ELSE n)>>)
Dol(n) == Plus(<<DOLLAR>>, n)
Id(name, n) == Plus(<<ID(name)>>, n)
Str(bytes) == <<STR(bytes)>>

Op(s, val) == [s |-> s, val |-> val]
Bare(s) == [s |-> s]
Lab(name) == [s |-> "label", name |-> name]
Equ(name, val) == [s |-> "equ", name |-> name, val |-> val]
Ds(n, val) == [s |-> "ds", n |-> n, val |-> val]
Sec(name, base, fill) == [s |-> "section", name |-> name, base |-> base # -1, fill |-> fill, val |-> Num(base)]
Rept(name, val, body) == <<[s |-> "rept", name |-> name, val |-> val]>> \o body \o <<Bare("endr")>>
If(val, then) == <<Op("if", val)>> \o then \o <<Bare("endif")>>
IfElse(val, then, else) == <<Op("if", val)>> \o then \o <<Bare("else")>> \o else \o <<Bare("endif")>>

Plain ==
  {Lab(a), Lab(dot), Op("jp", Id(a, 0)), Op("jp", Id(dot, 0)), Op("jp", Id(a, 1)), Op("jp", Id(x, 0)),
   Op("jr", Id(a, 0)), Op("jr", Id(x, 0)), Op("jr", Dol(-1)), Op("dw", Id(a, 0)), Op("dw", Dol(0)),
   Op("db", Id(a, 0)), Op("db", Id(x, 2)), Op("db", Num(7)), Ds(2, Num(5)), Ds(1, Id(a, 0)),
   Equ(x, Num(300)), Equ(x, Id(a, 0)), Op("org", Num(12)), Op("org", Id(x, 0)), Sec("t", 6, 9), Sec("u", -1, 9),
   Sec(".text", 6, 9), Bare("end"), Bare("profile"), Bare("endprofile")}

(* No place of a name in a DEF statement behind SECTION, no relative jump  *)
(* to a number that is defined later: see Groups.                          *)
Pairs(seq, P(_), Q(_)) == \E j, l \in DOMAIN seq : j < l /\ P(seq[j]) /\ Q(seq[l])
Ordinary(seq) ==
  /\ ~Pairs(seq, LAMBDA p : p.s = "equ", LAMBDA p : p.s = "equ")
  /\ ~Pairs(seq, LAMBDA p : p.s = "org", LAMBDA p : p.s = "org")
  /\ ~Pairs(seq, LAMBDA p : p.s = "section" /\ p.name # ".text",
                 LAMBDA p : p.s \in {"db", "dw", "ds"} /\ p.val[1].k = "id")
  /\ ~Pairs(seq, LAMBDA p : p = Op("jr", Id(x, 0)), LAMBDA p : p = Equ(x, Num(300)))
Short == {seq \in BoundedSeq(Plain, 3) : Ordinary(seq)}

Bodies ==
  {<<Lab(a), Op("jp", Id(a, 0))>>, <<Op("jr", Id(a, 0)), Ds(2, Num(5)), Lab(a)>>, <<Op("db", Id(i, 1)), Op("dw", Id(a, 0)), Lab(a)>>,
   <<Lab(a), Lab(dot), Op("dw", Id(dot, 0))>>}
Nested(c, d) ==
  {Rept(i, Num(c), body \o <<Op("dw", Id(i, 0))>>) : body \in Bodies} \cup
  {Rept(i, Num(c), Rept(x, Id(i, d), body \o <<Op("db", Id(x, 0))>>)) : body \in Bodies} \cup
  {Rept(i, Num(c), IfElse(Id(i, -d), body, <<Op("db", Num(7))>>)) : body \in Bodies} \cup
  {Rept(i, Num(c), IfElse(Num(d), IfElse(Num(c - 1), body, <<Op("jp", Id(b, 0))>>), <<Op("db", Num(1))>>))
     \o <<Lab(b), Op("db", Id(b, 0))>> : body \in Bodies}
Rejected ==
  {<<Op("dw", Id(a, 1))>>, <<Sec("t", 65536, 0)>>, <<Bare("endr")>>, <<Bare("else")>>, <<Bare("endif")>>, Rept(i, Num(2), <<Bare("else")>>), <<Op("if", Num(0))>>,
   IfElse(Num(1), <<Bare("else")>>, <<>>), Rept(i, Num(2), Rept(i, Num(2), <<>>)), Rept(i, Id(a, 0), <<>>),
   <<Equ(x, Id(x, 1)), Op("db", Id(x, 0))>>, <<Op("db", Id(x, 0)), Equ(x, Id(x, 1))>>,
   <<Op("dw", Two(Num(7), "/", Num(0)))>>, <<Op("jp", Two(Id(x, 0), "/", Id(b, 0))), Equ(b, Num(0))>>,
   <<Op("dw", Two(Num(1), "<<", Num(-1)))>>, <<Op("jp", In(Num(5)))>>, <<Op("jr", In(Num(5)))>>,
   <<Ds(2, Str(<<65, 66>>))>>, <<Op("dw", Str(<<65, 66>>))>>, <<Op("jp", Str(<<65, 66>>))>>,
   <<Op("jr", Str(<<65, 66>>))>>, <<Op("ld", Str(<<65, 66>>))>>,
   If(Id(a, 0), <<>>), <<[s |-> "rept", name |-> i, val |-> Num(2)]>>}
Blocks == Nested(2, 1) \cup Nested(1, 2)

(* The parentheses say how operators group; x is 3, and b is 4.            *)
Operators == {"+", "-", "*", "/", "%", "&", "|", "<<", ">>", "==", "!=", "<", "<=", ">", ">="}
Lefts == {Num(7), Num(-300), Id(x, 0), In(Two(Id(x, 0), "-", Num(9)))}
Rights == {Num(3), Id(x, 0), In(Plus(Id(x, 0), 1))}
One == {Two(l, op, r) : l \in Lefts, op \in Operators, r \in Rights}
More ==
  {<<OP(op)>> \o e : op \in {"+", "-", "~", "!"}, e \in {Id(x, 0), In(Two(Id(x, 0), "==", Num(3))), Num(0)}}
    \cup {Two(In(Two(Num(9), o, Id(x, 0))), "-", Num(1)) : o \in {"-", "&", "<"}}
    \cup {Two(Num(9), "-", In(Two(Id(x, 0), o, Num(1)))) : o \in {"-", "|", ">"}}
Three == Equ(x, Num(3))
Sums ==
  {<<Three, Op(s, e)>> : s \in {"jp", "ld", "dw"}, e \in One \cup More}
    \cup {<<Op(s, e), Three>> : s \in {"jp", "ld"}, e \in One \cup (More \ {<<OP("+")>> \o In(Two(Id(x, 0), "==", Num(3)))})}
    \cup {<<Three>> \o IfElse(e, <<Op("db", Num(1))>>, <<Op("db", Num(2))>>) : e \in One \cup More}
    \cup {<<Equ(b, Plus(In(e), 1)), Op("jp", Id(b, 0)), Three, Op("dw", Id(b, 0))>> : e \in More \cup {Id(x, 0)}}
    \cup {<<Op("ld", In(Id(x, 0))), Three>>, <<Op("ld", In(In(Num(5))))>>, <<Three, Op("ld", In(Id(x, 0)))>>,
          <<Three, Op("ld", Plus(In(Id(x, 0)), 1))>>, <<Op("db", Str(<<65, 66, 67>>)), Lab(a), Op("dw", Id(a, 0))>>,
          <<Op("db", Plus(Str(<<65>>), 1)), Op("dw", Str(<<66>>))>>,
          <<Lab(a), Op("jp", Two(Dol(0), "-", Id(b, 0))), Lab(b), Op("db", Two(Id(b, 0), "-", Id(a, 0)))>>}
Common == Short \cup Rejected \cup Blocks \cup Sums

Groups ==
  [far_jump |-> {<<Op("jr", Id(x, 0)), Equ(x, Num(300))>>},
   placed |-> {<<Sec("t", 6, 9), Op("dw", Id(a, 0)), Lab(a)>>},
   wide_filler |-> {<<Ds(2, Id(x, 0)), Equ(x, Num(5))>>},
   org_back |-> {<<Op("jp", Num(1)), Op("org", Num(1)), Op("db", Num(7))>>},
   nested_if |-> {If(Num(0), If(Num(1), <<Op("db", Num(1))>>) \o <<Op("db", Num(2))>>)},
   no_turn |-> {Rept(i, Num(0), <<Op("db", Num(7))>>)},
   here_in_rept |-> {Rept(i, Num(2), <<Op("dw", Dol(0))>>)},
   here_in_equ |-> {<<Equ(x, Dol(0)), Op("dw", Id(x, 0)), Op("dw", Id(x, 0))>>,
                    <<Op("jp", Id(x, 0)), Equ(x, Dol(0))>>},
   two_blocks |-> {Rept(i, Num(1), <<Op("jp", Id(a, 0)), Lab(a)>>) \o Rept(i, Num(1), <<Op("jp", Id(a, 0)), Lab(a)>>)},
   counter_kept |-> {Rept(i, Num(1), <<Equ(x, Id(i, 0))>>) \o <<Op("db", Id(x, 0))>>},
   local_sum |-> {<<Lab(a), Op("jp", Id(dot, 1)), Lab(dot)>>},
   outer_label |-> {Rept(i, Num(1), <<Lab(a)>> \o Rept(x, Num(1), <<Op("jp", Id(a, 0))>>))},
   chain |-> {<<Op("dw", Two(Num(10), "-", Two(Num(3), "-", Num(2))))>>, <<Op("dw", Two(Num(2), "*", Plus(Num(3), 4)))>>},
   paren_sum |-> {<<Three, Op("ld", In(Plus(Id(x, 0), 1)))>>},
   plus_paren |-> {<<Three, Op("ld", <<OP("+")>> \o In(Id(x, 0)))>>, <<Op("jp", <<OP("+")>> \o In(Plus(Id(x, 0), 1))), Three>>},
   no_remainder |-> {<<Op("dw", Two(Num(7), "%", Num(0)))>>},
   counter_sum |-> {Rept(i, Num(2), <<Op("jp", Two(Id(a, 0), "+", Id(i, 0)))>>) \o <<Lab(a)>>},
   profiles |-> {<<Bare("profile"), Bare("endprofile"), Bare("profile"), Bare("endprofile")>>}]
Included == UNION {Groups[g] : g \in Known}
MCPrograms == Common \cup Included
MCLegal == Blocks \cup Sums \cup Included
MCLocalNames == {".l"}
============================================================================
