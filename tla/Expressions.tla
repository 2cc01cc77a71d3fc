---------------------------- MODULE Expressions ----------------------------
(* Expressions of the assembler: the grammar of parser.y over tokens, and  *)
(* the operators of expr_eval (expressions.c) over values.                 *)
(*                                                                         *)
(* A token is an operand - a number, a string, $ or a name - or an         *)
(* operator.  A node of the tree names the token it came from, because     *)
(* evaluation and the symbol table write into those nodes.                 *)
EXTENDS Integers, Sequences, Bitwise

INT(v) == [k |-> "int", v |-> v]
STR(bytes) == [k |-> "str", bytes |-> bytes]
DOLLAR == [k |-> "dollar"]
ID(name) == [k |-> "id", name |-> name]
OP(op) == [k |-> "op", op |-> op]

(* Nodes of the tree of statement at.  is_ref is set by parentheses.       *)
Leaf(at, tok) == [k |-> "node", at |-> at, tok |-> tok, is_ref |-> FALSE]
RULE_EXPRESSION(op, args) == [k |-> "expr", op |-> op, args |-> args, is_ref |-> FALSE]
----------------------------------------------------------------------------
(* The grammar has no precedence: after an operand the parser shifts the   *)
(* next operator, so binary operators group to the right, and unary ones   *)
(* belong to the operand behind them.                                      *)
Parsed(tree, next) == [tree |-> tree, next |-> next]

RECURSIVE expr(_, _, _), unary_expr(_, _, _)
unary_expr(t, at, j) ==
  CASE t[j].k # "op" -> Parsed(Leaf(at, j), j + 1)
    [] t[j] = OP("(") ->
         LET inner == expr(t, at, j + 1) IN Parsed([inner.tree EXCEPT !.is_ref = TRUE], inner.next + 1)
    [] t[j].k = "op" /\ t[j] # OP("(") ->
         LET inner == unary_expr(t, at, j + 1) IN Parsed(RULE_EXPRESSION(t[j].op, <<inner.tree>>), inner.next)

expr(t, at, j) ==
  LET left == unary_expr(t, at, j)
      right == expr(t, at, left.next + 1)
  IN IF left.next > Len(t) \/ t[left.next] = OP(")") THEN left
     ELSE Parsed(RULE_EXPRESSION(t[left.next].op, <<left.tree, right.tree>>), right.next)

Tree(t, at) == expr(t, at, 1).tree
----------------------------------------------------------------------------
(* Operators on int, for values within its range.                          *)
Truth(b) == IF b THEN 1 ELSE 0
Sign(a) == IF a < 0 THEN -1 ELSE 1
Abs(a) == Sign(a) * a
Quotient(a, b) == Sign(a) * Sign(b) * (Abs(a) \div Abs(b))

(* In two's complement ~a is -a - 1.                                       *)
BitAnd(a, b) ==
  CASE a >= 0 /\ b >= 0 -> a & b
    [] a < 0 /\ b >= 0 -> b - (b & (-a - 1))
    [] a >= 0 /\ b < 0 -> a - (a & (-b - 1))
    [] a < 0 /\ b < 0 -> -((-a - 1) | (-b - 1)) - 1
BitOr(a, b) == a + b - BitAnd(a, b)

Unary(op, a) == CASE op = "+" -> a [] op = "-" -> -a [] op = "~" -> -a - 1 [] op = "!" -> Truth(a = 0)

Binary(op, a, b) ==
  CASE op = "+" -> a + b [] op = "-" -> a - b [] op = "*" -> a * b
    [] op = "/" -> Quotient(a, b) [] op = "%" -> a - b * Quotient(a, b)
    [] op = "&" -> BitAnd(a, b) [] op = "|" -> BitOr(a, b)
    [] op = "<<" -> a * 2 ^ b [] op = ">>" -> a \div 2 ^ b
    [] op = "==" -> Truth(a = b) [] op = "!=" -> Truth(a # b)
    [] op = "<" -> Truth(a < b) [] op = "<=" -> Truth(a <= b)
    [] op = ">" -> Truth(a > b) [] op = ">=" -> Truth(a >= b)

(* What C does not define, and no check of expr_eval prevents.             *)
NoMeaning(op, a, b) ==
  \/ op = "%" /\ b = 0
  \/ op \in {"<<", ">>"} /\ b \notin 0 .. 31
============================================================================
