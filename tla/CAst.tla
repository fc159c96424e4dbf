-------------------------------- MODULE CAst --------------------------------
(***************************************************************************)
(* The C abstract syntax tree the engine builds for a function and hands   *)
(* to the optimizer, src/engine/include/helix/cast.  An expression is a    *)
(* kind, a name (operator, variable, callee), a number (literal, width,    *)
(* call address) and its operands; a statement is a kind, a name (label,   *)
(* compound operator), its expressions and its nested statement lists.     *)
(* The uniform shape is what lets one definition walk every node.          *)
(*                                                                         *)
(* Left out: types other than the width of a cast or a variable, addresses *)
(* other than a call's, comments, blocks (a block is its statements), for  *)
(* loops and subscripts (they behave as a dereference does).               *)
(***************************************************************************)
EXTENDS Integers, Sequences, FiniteSets, SequencesExt

Expr(kind, name, number, operands) ==
  [k |-> kind, n |-> name, v |-> number, x |-> operands]

Var(n)         == Expr("var", n, 0, <<>>)
\* a variable of a type some pass looks at: an integer of w bits, or a float
Typed(w, n)    == Expr("var", n, w, <<>>)
FloatType      == -32
FloatZero      == Expr("float", "0.0f", 0, <<>>)
Text(s)        == Expr("str", s, 0, <<>>)
\* an address the builder could not give a name
AddressLeak(v) == Expr("addr", "leak", v, <<>>)
Num(v)         == Expr("int", "", v, <<>>)
Bin(op, l, r)  == Expr("bin", op, 0, <<l, r>>)
Un(op, e)      == Expr("un", op, 0, <<e>>)
Deref(e)       == Un("*", e)
Not(e)         == Un("!", e)
AddressOf(e)   == Un("&", e)
\* what lies at bytes behind the pointer e
Field(at, e)   == Expr("field", "", at, <<e>>)
CastTo(w, e)   == Expr("cast", "", w, <<e>>)
Call(f, args, at) == Expr("call", f, at, args)

Stmt(kind, name, exprs, lists) ==
  [k |-> kind, n |-> name, x |-> exprs, arms |-> lists]

Assign(t, e)       == Stmt("assign", "", <<t, e>>, <<>>)
Compound(op, t, e) == Stmt("assign", op, <<t, e>>, <<>>)
Do(e)              == Stmt("expr", "", <<e>>, <<>>)
Return(e)          == Stmt("return", "", <<e>>, <<>>)
ReturnVoid         == Stmt("return", "", <<>>, <<>>)
If(c, then, else)  == Stmt("if", "", <<c>>, <<then, else>>)
While(c, body)     == Stmt("while", "", <<c>>, <<body>>)
DoWhile(body, c)   == Stmt("dowhile", "", <<c>>, <<body>>)
\* case i of the switch is taken for the value i - 1, the last arm is default
Switch(e, cases)   == Stmt("switch", "", <<e>>, cases)
Goto(l)            == Stmt("goto", l, <<>>, <<>>)
Label(l)           == Stmt("label", l, <<>>, <<>>)
Break              == Stmt("break", "", <<>>, <<>>)
Continue           == Stmt("continue", "", <<>>, <<>>)

IsLoop(s)   == s.k \in {"while", "dowhile"}
IsAssign(s) == s.k = "assign"
Plain(s)    == IsAssign(s) /\ s.n = ""
Target(s)   == s.x[1]
Value(s)    == s.x[2]
Cond(s)     == s.x[1]
\* a plain assignment to a variable
Defines(s)  == IsAssign(s) /\ Target(s).k = "var"
Sets(s)     == Plain(s) /\ Defines(s)
Name(s)     == Target(s).n

-----------------------------------------------------------------------------
(***************************************************************************)
(* What occurs in a tree.                                                  *)
(***************************************************************************)
RECURSIVE SubExprs(_)
\* e and every expression inside it, in evaluation order
SubExprs(e) ==
  <<e>> \o FlattenSeq([i \in DOMAIN e.x |-> SubExprs(e.x[i])])

RECURSIVE Flat(_)
\* every statement of a list, nested ones included, in text order
Flat(list) ==
  FlattenSeq([i \in DOMAIN list |->
                <<list[i]>> \o FlattenSeq([j \in DOMAIN list[i].arms |->
                                             Flat(list[i].arms[j])])])

VarsOf(e)  == {d.n : d \in {f \in ToSet(SubExprs(e)) : f.k = "var"}}
VarsIn(es) == UNION {VarsOf(es[i]) : i \in DOMAIN es}
HasCall(e) == \E d \in ToSet(SubExprs(e)) : d.k = "call"

\* the variables a statement reads by itself, its nested lists not counted
ReadBy(s) ==
  IF ~IsAssign(s) THEN VarsIn(s.x)
  ELSE VarsOf(Value(s)) \cup
         (IF Sets(s) THEN {} ELSE VarsOf(Target(s)))

ReadIn(list)   == UNION {ReadBy(s) : s \in ToSet(Flat(list))}
SetIn(list)    == {Name(s) : s \in {t \in ToSet(Flat(list)) : Defines(t)}}
NamesIn(list)  == UNION {VarsIn(s.x) : s \in ToSet(Flat(list))}
LabelsIn(list) == {s.n : s \in {t \in ToSet(Flat(list)) : t.k = "label"}}
GotosIn(list)  == {s.n : s \in {t \in ToSet(Flat(list)) : t.k = "goto"}}

RECURSIVE RenamedIn(_, _), Renamed(_, _)
\* the expression, and the list, with the names of DOMAIN new replaced
RenamedIn(e, new) ==
  [e EXCEPT !.n = IF e.k = "var" /\ @ \in DOMAIN new THEN new[@] ELSE @,
            !.x = [i \in DOMAIN @ |-> RenamedIn(@[i], new)]]
Renamed(list, new) ==
  [i \in DOMAIN list |->
     [list[i] EXCEPT !.x = [j \in DOMAIN @ |-> RenamedIn(@[j], new)],
                     !.arms = [j \in DOMAIN @ |-> Renamed(@[j], new)]]]

-----------------------------------------------------------------------------
\* bit by bit, on the integers of 16 bits
Bitwise(op, a, b) ==
  LET bit(v, i) == (v \div 2^i) % 2
      join(i) == CASE op = "&" -> bit(a, i) * bit(b, i)
                   [] op = "|" -> IF bit(a, i) + bit(b, i) > 0 THEN 1 ELSE 0
                   [] op = "^" -> (bit(a, i) + bit(b, i)) % 2
      word == FoldLeft(LAMBDA sum, i : sum + join(i - 1) * 2^(i - 1), 0,
                       [i \in 1 .. 16 |-> i])
  IN IF word >= 2^15 THEN word - 2^16 ELSE word

\* the integer operators of C; a divisor is not 0
ArithOps == {"+", "-", "*", "/", "&", "|", "^", "<<"}
Arith(op, a, b) ==
  CASE op = "+"  -> a + b
    [] op = "-"  -> a - b
    [] op = "*"  -> a * b
    [] op = "/"  -> IF (a < 0) = (b < 0) THEN a \div b ELSE -(-a \div b)
    [] op = "<<" -> a * 2^b
    [] OTHER     -> Bitwise(op, a, b)

Without(list, drop(_)) == SelectSeq(list, LAMBDA s : ~drop(s))
From(list, i) == SubSeq(list, i, Len(list))
=============================================================================
