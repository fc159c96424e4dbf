----------------------------- MODULE CAstPrinter -----------------------------
(***************************************************************************)
(* The text of a function, CAstPrinter.cpp of src/engine/src/cast: its     *)
(* header, its declarations and its statements, with as few parentheses as *)
(* the precedence of the operators allows.  The text is a sequence of      *)
(* tokens; space stands only where it keeps two operators apart.           *)
(*                                                                         *)
(* The second half is the reference: how a C compiler takes a text apart.  *)
(* Its grammar is that of the C standard, not the printer's table.         *)
(*                                                                         *)
(* Beside what CAst leaves out, the printer has to print conditional       *)
(* expressions (ternary), subscripts (index), blocks, and for loops, whose *)
(* lists are their first part, their last part and their body.             *)
(*                                                                         *)
(* Left out: the comment above the function, indentation, how numbers,     *)
(* texts and types are spelt, and the limit on the depth of an expression. *)
(***************************************************************************)
EXTENDS CAst

Token(kind, text, number) == [t |-> kind, s |-> text, v |-> number]
Sign(s)    == <<Token("op", s, 0)>>
Spaced(s)  == <<Token("op", s, 0), Token("space", "", 0)>>
Keyword(s) == <<Token("word", s, 0)>>
Ident(n)   == <<Token("name", n, 0)>>
Number(v)  == <<Token("num", "", v)>>
Type(w)    == <<Token("type", "", w)>>
PointerType == 64
InParens(text) == Sign("(") \o text \o Sign(")")
Braced(text)   == Sign("{") \o text \o Sign("}")
Listed(texts)  == FlattenSeq([i \in DOMAIN texts |->
                                (IF i = 1 THEN <<>> ELSE Spaced(",")) \o texts[i]])

\* Mutant: an exclusive or binds as closely as an and.
XorBindsAsAnd(op) ==
  CASE op = "||" -> 3
    [] op = "&&" -> 4
    [] op = "|"  -> 5
    [] op \in {"^", "&"} -> 7
    [] op \in {"==", "!="} -> 8
    [] op \in {"<", "<=", ">", ">="} -> 9
    [] op \in {"<<", ">>"} -> 10
    [] op \in {"+", "-"} -> 11
    [] op \in {"*", "/", "%"} -> 12
BinaryOpPrecedence(op) ==
  CASE op = "||" -> 3
    [] op = "&&" -> 4
    [] op = "|"  -> 5
    [] op = "^"  -> 6
    [] op = "&"  -> 7
    [] op \in {"==", "!="} -> 8
    [] op \in {"<", "<=", ">", ">="} -> 9
    [] op \in {"<<", ">>"} -> 10
    [] op \in {"+", "-"} -> 11
    [] op \in {"*", "/", "%"} -> 12

FormatIntLiteral(v) == IF v < 0 THEN Sign("-") \o Number(-v) ELSE Number(v)

\* what a constant address leads to is a global variable
Constant(e) == IF e.k = "cast" THEN e.x[1] ELSE e
IsGlobal(e) == /\ e.k = "un" /\ e.n = "*"
               /\ Constant(e.x[1]).k = "int" /\ Constant(e.x[1]).v >= 4096
GlobalName(e) == "g_" \o ToString(Constant(e.x[1]).v)

PrintLiteral(e) ==
  CASE e.k = "int"   -> FormatIntLiteral(e.v)
    [] e.k = "float" -> <<Token("num", e.n, 0)>>
    [] e.k = "str"   -> <<Token("text", e.n, 0)>>
    [] e.k = "addr"  -> InParens(Type(PointerType)) \o Number(e.v)

RECURSIVE PrintExpr(_, _)
PrintExpr(e, parentPrec) ==
  LET within(prec, text) == IF prec < parentPrec THEN InParens(text) ELSE text
      mine == BinaryOpPrecedence(e.n)
  IN CASE e.k \in {"int", "float", "str", "addr"} -> PrintLiteral(e)
       [] e.k = "var"   -> Ident(e.n)
       [] e.k = "bin"   -> within(mine, PrintExpr(e.x[1], mine) \o Spaced(e.n)
                                          \o PrintExpr(e.x[2], mine + 1))
       [] IsGlobal(e)   -> Ident(GlobalName(e))
       [] e.k = "un" /\ ~IsGlobal(e) -> Sign(e.n) \o PrintExpr(e.x[1], 14)
       [] e.k = "cast"  -> InParens(Type(e.v)) \o PrintExpr(e.x[1], 14)
       [] e.k = "call"  -> Ident(e.n) \o InParens(
                             Listed([i \in DOMAIN e.x |-> PrintExpr(e.x[i], 0)]))
       [] e.k = "ternary" ->
            within(2, PrintExpr(e.x[1], 3) \o Spaced("?") \o PrintExpr(e.x[2], 0)
                        \o Spaced(":") \o PrintExpr(e.x[3], 2))
       [] e.k = "index" -> PrintExpr(e.x[1], 15) \o Sign("[") \o PrintExpr(e.x[2], 0) \o Sign("]")
       [] e.k = "field" -> PrintExpr(e.x[1], 15) \o Sign("->") \o <<Token("name", "field", e.v)>>

PrintCondition(c) ==
  IF c.k = "int" /\ c.v # 0 THEN Keyword("true") ELSE PrintExpr(c, 0)
PrintAssign(s) ==
  LET target == PrintExpr(Target(s), 0)
  IN IF s.n \in {"++", "--"}
       THEN (IF Target(s).k \in {"var", "field", "index"} THEN target ELSE InParens(target))
              \o Sign(s.n)
       ELSE target \o Spaced(s.n \o "=") \o PrintExpr(Value(s), 0)
\* a part of the head of a for loop
PrintLoopPart(list) ==
  CASE list = <<>> -> <<>>
    [] list # <<>> /\ IsAssign(list[1]) -> PrintAssign(list[1])
    [] list # <<>> /\ list[1].k = "expr" -> PrintExpr(Cond(list[1]), 0)

PrintJump(s) ==
  (CASE s.k = "return" -> Keyword("return") \o Listed([i \in DOMAIN s.x |-> PrintExpr(s.x[i], 0)])
     [] s.k = "goto"   -> Keyword("goto") \o Ident(s.n)
     [] s.k \in {"break", "continue"} -> Keyword(s.k)) \o Sign(";")
Headed(word, text) == Keyword(word) \o InParens(text)

RECURSIVE PrintStmts(_)
PrintFor(s) ==
  Headed("for", PrintLoopPart(s.arms[1]) \o Sign(";")
                  \o (IF s.x = <<>> THEN <<>> ELSE PrintCondition(Cond(s))) \o Sign(";")
                  \o PrintLoopPart(s.arms[2]))
    \o Braced(PrintStmts(s.arms[3]))
PrintSwitch(s) ==
  LET case(i) == (IF i = Len(s.arms) THEN Keyword("default") ELSE Keyword("case") \o Number(i - 1))
                   \o Sign(":") \o PrintStmts(s.arms[i])
  IN Headed("switch", PrintExpr(Cond(s), 0)) \o Braced(FlattenSeq([i \in DOMAIN s.arms |-> case(i)]))
PrintStmt(s) ==
  LET body(i) == Braced(PrintStmts(s.arms[i]))
  IN CASE s.k = "assign" -> PrintAssign(s) \o Sign(";")
       [] s.k = "expr"   -> PrintExpr(Cond(s), 0) \o Sign(";")
       [] s.k = "if"     -> Headed("if", PrintExpr(Cond(s), 0)) \o body(1)
                              \o (IF s.arms[2] = <<>> THEN <<>> ELSE Keyword("else") \o body(2))
       [] s.k = "while"  -> Headed("while", PrintCondition(Cond(s))) \o body(1)
       [] s.k = "dowhile" -> Keyword("do") \o body(1)
                               \o Headed("while", PrintCondition(Cond(s))) \o Sign(";")
       [] s.k = "for"    -> PrintFor(s)
       [] s.k = "switch" -> PrintSwitch(s)
       [] s.k \in {"return", "goto", "break", "continue"} -> PrintJump(s)
       [] s.k = "label"  -> Ident(s.n) \o Sign(":")
       [] s.k = "block"  -> body(1)
PrintStmts(list) == FlattenSeq([i \in DOMAIN list |-> PrintStmt(list[i])])

PrintVarDecl(f, n) ==
  Type(0) \o Ident(n) \o (IF n \in f.zero THEN Spaced("=") \o Number(0) ELSE <<>>) \o Sign(";")
PrintFunction(f) ==
  Type(0) \o Ident("sub")
    \o InParens(IF f.params = <<>> THEN Keyword("void")
                ELSE Listed([i \in DOMAIN f.params |-> Type(0) \o Ident(f.params[i])]))
    \o Braced(FlattenSeq([i \in DOMAIN f.locals |-> PrintVarDecl(f, f.locals[i])])
                \o PrintStmts(f.body))

\* what the printer does not write as C means it: a minus before a minus, an
\* address of an address, and a cast or an operator before a field or a subscript
Misprinted(e) ==
  \/ /\ e.k = "un" /\ e.n = "-"
     /\ \/ e.x[1].k = "un" /\ e.x[1].n = "-"
        \/ e.x[1].k = "int" /\ e.x[1].v < 0
  \/ e.k = "un" /\ e.n = "&" /\ e.x[1].k = "un" /\ e.x[1].n = "&"
  \/ /\ e.k \in {"field", "index"}
     /\ \/ e.x[1].k \in {"cast", "un", "addr"} /\ ~IsGlobal(e.x[1])
        \/ e.x[1].k = "int" /\ e.x[1].v < 0

-----------------------------------------------------------------------------
(***************************************************************************)
(* How C reads it.                                                         *)
(***************************************************************************)
TwoSigns == {"--", "++", "&&", "||", "<<", ">>", "<=", ">=", "==", "!=", "->"}
\* two operators with nothing between them are one, if there is such a one
Lexed(text) ==
  LET join(read, t) ==
        IF read # <<>> /\ t.t = "op" /\ Last(read).t = "op" /\ Last(read).s \o t.s \in TwoSigns
          THEN [read EXCEPT ![Len(read)].s = @ \o t.s]
          ELSE Append(read, t)
  IN SelectSeq(FoldLeft(join, <<>>, text), LAMBDA t : t.t # "space")

Levels == <<{"||"}, {"&&"}, {"|"}, {"^"}, {"&"}, {"==", "!="}, {"<", "<=", ">", ">="},
            {"<<", ">>"}, {"+", "-"}, {"*", "/", "%"}>>
BinaryOps == UNION ToSet(Levels)
LevelOf == [op \in BinaryOps |-> CHOOSE i \in DOMAIN Levels : op \in Levels[i]]
UnarySigns == {"-", "!", "~", "*", "&", "--", "++", "&&"}

TokenAt(ts, i) == IF i \in DOMAIN ts THEN ts[i] ELSE Token("end", "", 0)
Is(ts, i, s)   == TokenAt(ts, i).t \in {"op", "word"} /\ TokenAt(ts, i).s = s
\* behind the token s, which has to be here
Past(ts, i, s) == IF Is(ts, i, s) THEN i + 1 ELSE Len(ts) + 1
Got(tree, at)  == [is |-> tree, at |-> at]
Garbled == Expr("garbled", "", 0, <<>>)

RECURSIVE ReadExpr(_, _), ReadRest(_, _, _), ReadUnary(_, _), ReadPostfix(_, _), ReadArgs(_, _)
ReadBinary(ts, i, level) == ReadRest(ts, ReadUnary(ts, i), level)
ReadRest(ts, left, level) ==
  LET t == TokenAt(ts, left.at)
  IN IF t.t # "op" \/ t.s \notin BinaryOps THEN left
     ELSE IF LevelOf[t.s] < level THEN left
     ELSE LET right == ReadBinary(ts, left.at + 1, LevelOf[t.s] + 1)
          IN ReadRest(ts, Got(Bin(t.s, left.is, right.is), right.at), level)
ReadExpr(ts, i) ==
  LET c == ReadBinary(ts, i, 1)
  IN IF ~Is(ts, c.at, "?") THEN c
     ELSE LET then == ReadExpr(ts, c.at + 1)
              else == ReadExpr(ts, Past(ts, then.at, ":"))
          IN Got(Expr("ternary", "", 0, <<c.is, then.is, else.is>>), else.at)

\* the arguments of a call up to the parenthesis
ReadArgs(ts, i) ==
  IF Is(ts, i, ")") \/ i > Len(ts) THEN Got(<<>>, i + 1)
  ELSE LET head == ReadExpr(ts, i)
           rest == ReadArgs(ts, IF Is(ts, head.at, ",") THEN head.at + 1 ELSE head.at)
       IN Got(<<head.is>> \o rest.is, rest.at)
ReadPrimary(ts, i) ==
  LET t == TokenAt(ts, i)
      inner == ReadExpr(ts, i + 1)
      args == ReadArgs(ts, i + 2)
  IN CASE t.t = "name" /\ Is(ts, i + 1, "(") -> Got(Call(t.s, args.is, 0), args.at)
       [] t.t = "name" /\ ~Is(ts, i + 1, "(") -> Got(Var(t.s), i + 1)
       [] t.t = "num"  -> Got(IF t.s = "" THEN Num(t.v) ELSE Expr("float", t.s, 0, <<>>), i + 1)
       [] t.t = "text" -> Got(Text(t.s), i + 1)
       [] Is(ts, i, "(") -> Got(inner.is, Past(ts, inner.at, ")"))
       [] OTHER -> Got(Garbled, Len(ts) + 1)
ReadPostfix(ts, base) ==
  LET inner == ReadExpr(ts, base.at + 1)
  IN CASE Is(ts, base.at, "->") ->
            ReadPostfix(ts, Got(Field(TokenAt(ts, base.at + 1).v, base.is), base.at + 2))
       [] Is(ts, base.at, "[") ->
            ReadPostfix(ts, Got(Expr("index", "", 0, <<base.is, inner.is>>), Past(ts, inner.at, "]")))
       [] Is(ts, base.at, "++") \/ Is(ts, base.at, "--") ->
            ReadPostfix(ts, Got(Un("post" \o TokenAt(ts, base.at).s, base.is), base.at + 1))
       [] OTHER -> base
ReadUnary(ts, i) ==
  LET t == TokenAt(ts, i)
      behind(j) == ReadUnary(ts, j)
  IN CASE t.t = "op" /\ t.s \in UnarySigns -> Got(Un(t.s, behind(i + 1).is), behind(i + 1).at)
       [] Is(ts, i, "(") /\ TokenAt(ts, i + 1).t = "type" ->
            Got(CastTo(TokenAt(ts, i + 1).v, behind(i + 3).is), behind(i + 3).at)
       [] OTHER -> ReadPostfix(ts, ReadPrimary(ts, i))
\* what stands where an expression statement or an assignment may
CompoundSigns == [op \in {c \o "=" : c \in BinaryOps \ {"&&", "||"}} |->
                    CHOOSE c \in BinaryOps : c \o "=" = op]
ReadSimple(ts, i) ==
  LET left == ReadExpr(ts, i)
      t == TokenAt(ts, left.at)
      right == ReadExpr(ts, left.at + 1)
  IN CASE Is(ts, left.at, "=") -> Got(Assign(left.is, right.is), right.at)
       [] t.t = "op" /\ t.s \in DOMAIN CompoundSigns \ BinaryOps ->
            Got(Compound(CompoundSigns[t.s], left.is, right.is), right.at)
       [] left.is.n \in {"post++", "post--"} ->
            Got(Stmt("assign", IF left.is.n = "post++" THEN "++" ELSE "--", left.is.x, <<>>), left.at)
       [] OTHER -> Got(Do(left.is), left.at)
\* a part of a for loop, or a condition of any loop, up to the sign that ends it
ReadPart(ts, i, end) ==
  LET it == ReadSimple(ts, i)
  IN IF Is(ts, i, end) THEN Got(<<>>, i + 1) ELSE Got(<<it.is>>, Past(ts, it.at, end))
ReadCondition(ts, i, end) ==
  LET it == ReadExpr(ts, i)
  IN CASE Is(ts, i, end) -> Got(<<>>, i + 1)
       [] Is(ts, i, "true") -> Got(<<Num(1)>>, Past(ts, i + 1, end))
       [] OTHER -> Got(<<it.is>>, Past(ts, it.at, end))

RECURSIVE ReadStmts(_, _), ReadCases(_, _, _)
ReadBlock(ts, i) ==
  LET list == ReadStmts(ts, Past(ts, i, "{")) IN Got(list.is, Past(ts, list.at, "}"))
\* the cases up to the end of the switch, from the one for the value v on
ReadCases(ts, i, v) ==
  LET arm == ReadStmts(ts, Past(ts, IF Is(ts, i, "default") THEN i + 1 ELSE i + 2, ":"))
      rest == ReadCases(ts, arm.at, v + 1)
  IN IF (Is(ts, i, "case") /\ TokenAt(ts, i + 1).v = v) \/ Is(ts, i, "default") THEN Got(<<arm.is>> \o rest.is, rest.at)
     ELSE Got(<<>>, Past(ts, i, "}"))
ReadIf(ts, i) ==
  LET c == ReadCondition(ts, Past(ts, i, "("), ")")
      then == ReadBlock(ts, c.at)
      else == ReadBlock(ts, then.at + 1)
  IN IF Is(ts, then.at, "else") THEN Got(If(c.is[1], then.is, else.is), else.at)
     ELSE Got(If(c.is[1], then.is, <<>>), then.at)
ReadFor(ts, i) ==
  LET init == ReadPart(ts, Past(ts, i, "("), ";")
      c    == ReadCondition(ts, init.at, ";")
      next == ReadPart(ts, c.at, ")")
      body == ReadBlock(ts, next.at)
  IN Got(Stmt("for", "", c.is, <<init.is, next.is, body.is>>), body.at)
ReadStmt(ts, i) ==
  LET word == IF TokenAt(ts, i).t = "word" THEN TokenAt(ts, i).s ELSE ""
      body == ReadBlock(ts, i + 1)
      cond == ReadCondition(ts, Past(ts, i + 1, "("), ")")
      then == ReadBlock(ts, cond.at)
      until == ReadCondition(ts, Past(ts, Past(ts, body.at, "while"), "("), ")")
      cases == ReadCases(ts, Past(ts, cond.at, "{"), 0)
      it == ReadPart(ts, i, ";")
      value == ReadCondition(ts, i + 1, ";")
  IN CASE word = "if"     -> ReadIf(ts, i + 1)
       [] word = "for"    -> ReadFor(ts, i + 1)
       [] word = "while"  -> Got(While(cond.is[1], then.is), then.at)
       [] word = "do"     -> Got(DoWhile(body.is, until.is[1]), Past(ts, until.at, ";"))
       [] word = "switch" -> Got(Switch(cond.is[1], cases.is), cases.at)
       [] word = "return" -> Got(Stmt("return", "", value.is, <<>>), value.at)
       [] word = "goto"   -> Got(Goto(TokenAt(ts, i + 1).s), Past(ts, i + 2, ";"))
       [] word \in {"break", "continue"} -> Got(Stmt(word, "", <<>>, <<>>), Past(ts, i + 1, ";"))
       [] Is(ts, i, "{") ->
            LET inner == ReadBlock(ts, i) IN Got(Stmt("block", "", <<>>, <<inner.is>>), inner.at)
       [] word = "" /\ Is(ts, i + 1, ":") -> Got(Label(TokenAt(ts, i).s), i + 2)
       [] OTHER -> IF it.is = <<>> THEN it ELSE Got(it.is[1], it.at)
\* the statements up to the end of the list
ReadStmts(ts, i) ==
  IF i > Len(ts) \/ \E end \in {"}", "case", "default"} : Is(ts, i, end) THEN Got(<<>>, i)
  ELSE LET head == ReadStmt(ts, i)
           rest == ReadStmts(ts, head.at)
       IN Got(<<head.is>> \o rest.is, rest.at)

RECURSIVE ReadParams(_, _), ReadDecls(_, _)
ReadParams(ts, i) ==
  CASE Is(ts, i, ")") -> Got(<<>>, i + 1)
    [] Is(ts, i, "void") \/ Is(ts, i, ",") -> ReadParams(ts, i + 1)
    [] TokenAt(ts, i).t = "type" ->
         LET rest == ReadParams(ts, i + 2) IN Got(<<TokenAt(ts, i + 1).s>> \o rest.is, rest.at)
    [] OTHER -> Got(<<>>, Len(ts) + 1)
ReadDecls(ts, i) ==
  LET zero == Is(ts, i + 2, "=")
      rest == ReadDecls(ts, Past(ts, IF zero THEN i + 4 ELSE i + 2, ";"))
  IN IF TokenAt(ts, i).t # "type" THEN Got(<<>>, i)
     ELSE Got(<<[n |-> TokenAt(ts, i + 1).s, zero |-> zero]>> \o rest.is, rest.at)
ReadFunction(ts) ==
  LET params == ReadParams(ts, Past(ts, 3, "("))
      decls  == ReadDecls(ts, Past(ts, params.at, "{"))
      body   == ReadStmts(ts, decls.at)
  IN [params |-> params.is, locals |-> [i \in DOMAIN decls.is |-> decls.is[i].n],
      zero   |-> {d.n : d \in {c \in ToSet(decls.is) : c.zero}}, body |-> body.is]

-----------------------------------------------------------------------------
(***************************************************************************)
(* What C has no sign for: a negative number is the negation of one, an    *)
(* address is a number made a pointer, a constant address has a name, and  *)
(* every condition that is not 0 is as good as another.                    *)
(***************************************************************************)
RECURSIVE AsWritten(_), ListAsWritten(_)
AsWritten(e) ==
  CASE e.k = "int" /\ e.v < 0 -> Un("-", Num(-e.v))
    [] e.k = "int" /\ e.v >= 0 -> Num(e.v)
    [] e.k = "addr" -> CastTo(PointerType, Num(e.v))
    [] e.k = "var" -> Var(e.n)
    [] IsGlobal(e) -> Var(GlobalName(e))
    [] e.k \notin {"int", "addr", "var"} /\ ~IsGlobal(e) ->
         [e EXCEPT !.v = IF e.k \in {"cast", "field"} THEN @ ELSE 0,
                   !.x = [i \in DOMAIN @ |-> AsWritten(@[i])]]
ListAsWritten(list) ==
  LET always(s) == s.k \in {"while", "dowhile", "for"} /\ s.x # <<>> /\ s.x[1].k = "int"
                     /\ s.x[1].v # 0
      exprs(s) == IF s.k = "assign" /\ s.n \in {"++", "--"} THEN <<Target(s)>>
                  ELSE IF always(s) THEN <<Num(1)>> ELSE s.x
  IN [i \in DOMAIN list |->
        Stmt(list[i].k, list[i].n, [j \in DOMAIN exprs(list[i]) |-> AsWritten(exprs(list[i])[j])],
             [j \in DOMAIN list[i].arms |-> ListAsWritten(list[i].arms[j])])]

\* the text says what the function f is
ReadsBack(text, f) ==
  \/ \E s \in ToSet(Flat(f.body)) : \E i \in DOMAIN s.x :
       \E e \in ToSet(SubExprs(s.x[i])) : Misprinted(e)
  \/ ReadFunction(Lexed(text))
       = [params |-> f.params, locals |-> f.locals, zero |-> f.zero \cap ToSet(f.locals),
          body |-> ListAsWritten(f.body)]
=============================================================================
