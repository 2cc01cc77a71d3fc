------------------------ MODULE AssemblerReference ------------------------
(* What a source means, said without passes, patches or a symbol table,    *)
(* and the properties of Assembler that rest on it.  Sources whose blocks  *)
(* are nested properly have a meaning; counts and conditions depend on     *)
(* numbers, names of numbers and counters of REPT blocks.                  *)
EXTENDS Assembler, FiniteSets

CONSTANT Legal  \* sources with nothing in them to reject

Count(s, lo, hi) == Cardinality({j \in lo .. hi : source[j].s = s})
Least(S) == CHOOSE j \in S : \A i \in S : j <= i
Closing(lo, open, close) ==
  Least({j \in lo .. Len(source) : source[j].s = close /\ Count(open, lo, j) = Count(close, lo, j)})
Elses(lo, hi) == {j \in lo .. hi : source[j].s = "else" /\ Count("if", lo, j) = Count("endif", lo, j) + 1}

(* An expression over numbers, with the precedence of operators that C     *)
(* has: the last operator of the lowest rank outside parentheses splits it.*)
Rank(op) ==
  CASE op = "|" -> 1 [] op = "&" -> 2 [] op \in {"==", "!="} -> 3 [] op \in {"<", "<=", ">", ">="} -> 4
    [] op \in {"<<", ">>"} -> 5 [] op \in {"+", "-"} -> 6 [] op \in {"*", "/", "%"} -> 7
RECURSIVE Sense(_)
Sense(t) ==
  LET Opened(j) == Cardinality({n \in 1 .. j : t[n] = OP("(")}) - Cardinality({n \in 1 .. j : t[n] = OP(")")})
      tops == {j \in 2 .. Len(t) : /\ t[j].k = "op" /\ t[j].op \notin {"(", ")", "!", "~"} /\ Opened(j) = 0
                                   /\ t[j - 1].k # "op" \/ t[j - 1] = OP(")")}
      split == CHOOSE j \in tops : \A n \in tops : \/ Rank(t[j].op) < Rank(t[n].op)
                                                   \/ Rank(t[j].op) = Rank(t[n].op) /\ j >= n
  IN CASE tops # {} -> Binary(t[split].op, Sense(SubSeq(t, 1, split - 1)), Sense(SubSeq(t, split + 1, Len(t))))
       [] tops = {} /\ t[1].k = "int" -> t[1].v
       [] tops = {} /\ t[1] = OP("(") -> Sense(SubSeq(t, 2, Len(t) - 1))
       [] OTHER -> Unary(t[1].op, Sense(Tail(t)))

(* A turn is the REPT statements around a place with their counters.       *)
RECURSIVE Constant(_, _)
Constant(val, turn) ==
  LET Own(name) == {r \in DOMAIN turn : source[turn[r][1]].name = name}
      Defined(name) == {j \in DOMAIN source : source[j].s = "equ" /\ source[j].name = name}
  IN Sense([j \in DOMAIN val |->
              IF val[j].k # "id" THEN val[j]
              ELSE IF Own(val[j].name) # {} THEN INT(turn[CHOOSE r \in Own(val[j].name) : TRUE][2])
              ELSE INT(Constant(source[Least(Defined(val[j].name))].val, turn))])

(* The statements carried out, in order, each with its turn.               *)
RECURSIVE Unroll(_, _, _)
Unroll(lo, hi, turn) ==
  IF lo > hi THEN <<>>
  ELSE CASE source[lo].s = "rept" ->
              LET end == Closing(lo, "rept", "endr")
              IN FlattenSeq([c \in 1 .. Constant(source[lo].val, turn) |->
                               Unroll(lo + 1, end - 1, Append(turn, <<lo, c - 1>>))])
                   \o Unroll(end + 1, hi, turn)
         [] source[lo].s = "if" ->
              LET end == Closing(lo, "if", "endif")
                  else == Least(Elses(lo, end) \cup {end})
              IN (IF Constant(source[lo].val, turn) # 0 THEN Unroll(lo + 1, else - 1, turn)
                                                        ELSE Unroll(else + 1, end - 1, turn))
                   \o Unroll(end + 1, hi, turn)
         [] OTHER -> <<[at |-> lo, turn |-> turn]>> \o Unroll(lo + 1, hi, turn)
Executed == Unroll(1, Least({j \in DOMAIN source : source[j].s = "end"} \cup {Len(source) + 1}) - 1, <<>>)

IsString(val) == Len(val) = 1 /\ val[1].k = "str" /\ Len(val[1].bytes) # 1
Size(stmt) == CASE stmt.s = "db" -> IF IsString(stmt.val) THEN Len(stmt.val[1].bytes) ELSE 1
                [] stmt.s = "dw" -> 2 [] stmt.s = "ds" -> stmt.n
                [] stmt.s \in {"jp", "ld"} -> 3 [] stmt.s = "jr" -> 2 [] OTHER -> 0

Full(name, scope) == IF name[1] \in LocalNames THEN scope \o name ELSE name

(* The value of an operand of a placed statement: a name means the counter *)
(* of a block around it, else the label of the innermost block around it   *)
(* that has one, else what EQU says.                                       *)
RECURSIVE Meaning(_, _, _)
Named(name, it, placed) ==
  LET own == {r \in DOMAIN it.turn : source[it.turn[r][1]].name = name}
      labels == {j \in DOMAIN placed :
                   /\ placed[j].stmt.s = "label"
                   /\ Full(placed[j].stmt.name, placed[j].scope) = Full(name, it.scope)
                   /\ IsPrefix(placed[j].turn, it.turn)}
      innermost == CHOOSE j \in labels : \A i \in labels : Len(placed[i].turn) <= Len(placed[j].turn)
      equ == CHOOSE j \in DOMAIN placed : placed[j].stmt.s = "equ" /\ placed[j].stmt.name = name
  IN IF own # {} THEN it.turn[CHOOSE r \in own : TRUE][2]
     ELSE IF labels # {} THEN placed[innermost].pos
     ELSE Meaning(placed[equ].stmt.val, it, placed)
Meaning(val, it, placed) ==
  Sense([j \in DOMAIN val |->
           CASE val[j].k = "dollar" -> INT(it.pos)
             [] val[j].k = "str" -> INT(val[j].bytes[1])
             [] val[j].k = "id" -> INT(Named(val[j].name, it, placed))
             [] OTHER -> val[j]])

(* Every executed statement with its section, its position and the global  *)
(* label before it.                                                        *)
Placed(layout, item) ==
  LET stmt == source[item.at]
      new == stmt.s = "section" /\ stmt.name # Last(layout.secs).name
      here == [turn |-> item.turn, pos |-> layout.pos, scope |-> layout.scope]
      pos == IF (new /\ stmt.base) \/ stmt.s = "org" THEN Meaning(stmt.val, here, layout.placed) ELSE layout.pos
      global == stmt.s = "label" /\ stmt.name[1] \notin LocalNames
  IN [secs |-> IF new THEN Append(layout.secs, [name |-> stmt.name, start |-> pos, fill |-> stmt.fill])
                      ELSE layout.secs,
      pos |-> pos + Size(stmt),
      scope |-> IF global THEN stmt.name ELSE layout.scope,
      placed |-> Append(layout.placed,
                        [stmt |-> stmt, turn |-> item.turn, pos |-> pos, scope |-> layout.scope,
                         sec |-> Len(layout.secs) + IF new THEN 1 ELSE 0])]
Layout == FoldLeft(Placed, [secs |-> <<[name |-> ".text", start |-> 0, fill |-> 0]>>, pos |-> 0,
                           scope |-> <<>>, placed |-> <<>>], Executed)
----------------------------------------------------------------------------
Target(it, placed) == Meaning(it.stmt.val, it, placed)

(* Parentheses around all of an operand.                                   *)
Enclosed(t) ==
  /\ t[1] = OP("(")
  /\ \A j \in 1 .. Len(t) - 1 :
       Cardinality({n \in 1 .. j : t[n] = OP("(")}) > Cardinality({n \in 1 .. j : t[n] = OP(")")})
Encoding(it, placed) ==
  CASE it.stmt.s = "db" -> IF IsString(it.stmt.val) THEN it.stmt.val[1].bytes ELSE Bytes(1, Target(it, placed))
    [] it.stmt.s = "dw" -> Bytes(2, Target(it, placed))
    [] it.stmt.s = "ds" -> Fill(Target(it, placed), it.stmt.n)
    [] it.stmt.s = "jp" -> <<195>> \o Bytes(2, Target(it, placed))
    [] it.stmt.s = "ld" -> <<LoadHL(Enclosed(it.stmt.val))>> \o Bytes(2, Target(it, placed))
    [] it.stmt.s = "jr" -> <<24, Low(Target(it, placed) - it.pos - 2)>>
    [] OTHER -> <<>>

(* The bytes of section s: the last statement that has one at a position   *)
(* says what it is, and the filler is where none has.                      *)
Image(s, layout) ==
  LET sec == layout.secs[s]
      own == {j \in DOMAIN layout.placed : layout.placed[j].sec = s}
      End(it) == it.pos + Size(it.stmt)
      Writers(p) == {j \in own : layout.placed[j].pos <= p /\ p < End(layout.placed[j])}
      last(p) == layout.placed[CHOOSE j \in Writers(p) : \A i \in Writers(p) : i <= j]
      ends == {End(layout.placed[j]) : j \in own} \cup {sec.start}
      size == CHOOSE e \in ends : \A f \in ends : f <= e
  IN [j \in 1 .. size - sec.start |->
        LET p == sec.start + j - 1
        IN IF Writers(p) = {} THEN sec.fill
           ELSE Encoding(last(p), layout.placed)[p - last(p).pos + 1]]
----------------------------------------------------------------------------
Final == {"done", "error", "undefined"}

(* A legal source is accepted, and the bytes of an accepted source are the *)
(* ones it describes: conditions and repetitions, origins and fillers,     *)
(* operators, names used before and after they are defined, local names    *)
(* and names inside repeated blocks all come out as written, and every     *)
(* relative jump reaches its target (compile.c, expressions.c, render.c).  *)
AsWritten ==
  /\ status \in {"error", "undefined"} => source \notin Legal
  /\ status = "done" =>
    LET layout == Layout
    IN /\ [s \in DOMAIN sections |-> sections[s].content] = [s \in DOMAIN layout.secs |-> Image(s, layout)]
       /\ \A it \in Range(layout.placed) :
            it.stmt.s = "jr" => Target(it, layout.placed) - it.pos - 2 \in -128 .. 127

(* The counter of a REPT block has a name exactly while the block runs: no *)
(* name is left to the variable that ENDR frees (compile.c:392-395), and   *)
(* the name is the one of the innermost block that declares it.            *)
CountersLive ==
  /\ \A n \in DOMAIN symtab : symtab[n].k = "var" => Running(symtab[n].at) # {}
  /\ \A r \in DOMAIN repts : repts[r].varname # <<>> =>
       /\ <<repts[r].varname, <<>>>> \in DOMAIN symtab
       /\ symtab[<<repts[r].varname, <<>>>>] = Counter(repts[r].start_iter)

(* Both passes come to an end, whatever is rewound and skipped.            *)
Finishes == <>(status \in Final)
============================================================================
