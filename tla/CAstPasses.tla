----------------------------- MODULE CAstPasses -----------------------------
(***************************************************************************)
(* The passes of CAstOptimizer.cpp that rewrite one statement list at a    *)
(* time: removals of what does nothing, folds of branches, returns and     *)
(* compound assignments.  XHere is what the pass X does to one list after  *)
(* it has recursed into the nested ones.                                   *)
(***************************************************************************)
EXTENDS CAst
CONSTANTS Results,   \* scf_r<n>, the selectors and values of structured regions
          Guards     \* scf_w<n>, the guards of structured loops
Synthetic == Results \cup Guards

RECURSIVE Uncast(_)
Uncast(e) == IF e.k = "cast" THEN Uncast(e.x[1]) ELSE e
IsDeref(e) == e.k = "un" /\ e.n = "*"
NullDeref(e) == IsDeref(e) /\ Uncast(e.x[1]) = Num(0)

Shaped(e, kinds) == \A d \in ToSet(SubExprs(e)) : d.k \in kinds
\* isSameExpr, and the exprEquals that knows no casts and no operators
SameExpr(a, b)  == a = b /\ Shaped(a, {"var", "int", "un", "cast", "bin"})
ExprEquals(a, b) == a = b /\ Shaped(a, {"var", "int", "un", "field"})

Comparisons == {"==", "!=", "<", "<=", ">", ">="}
FlipCmp == [op \in Comparisons |->
              CASE op = "==" -> "!=" [] op = "!=" -> "==" [] op = "<" -> ">="
                [] op = "<=" -> ">"  [] op = ">"  -> "<=" [] op = ">=" -> "<"]

\* the list with statement i replaced by the statements new
Splice(list, i, new) == SubSeq(list, 1, i - 1) \o new \o From(list, i + 1)
First(S) == CHOOSE i \in S : \A j \in S : i <= j

-----------------------------------------------------------------------------
RemoveSelfAssignmentsHere(list) ==
  Without(list, LAMBDA s : Plain(s) /\
            (\/ NullDeref(Target(s)) /\ NullDeref(Value(s))
             \/ Target(s).k = "var" /\ Value(s) = Target(s)))

RemoveEmptyIfsHere(list) ==
  Without(list, LAMBDA s : s.k = "if" /\ s.arms = <<<<>>, <<>>>>)

EliminateNullStoresHere(list) ==
  Without(list, LAMBDA s : /\ s.k \in {"assign", "expr"}
                           /\ NullDeref(s.x[1]))

InvertEmptyIfHere(list) ==
  [i \in DOMAIN list |->
     LET s == list[i] IN
     IF s.k = "if" /\ s.arms[1] = <<>> /\ s.arms[2] # <<>>
       THEN If(IF Cond(s).k = "bin" /\ Cond(s).n \in Comparisons
                 THEN [Cond(s) EXCEPT !.n = FlipCmp[@]] ELSE Not(Cond(s)),
               s.arms[2], <<>>)
       ELSE s]

\* whatever value the branch assigns; == and != are left alone
CollapseMinMaxHere(list) ==
  [i \in DOMAIN list |->
     LET s == list[i] IN
     IF /\ s.k = "if" /\ s.arms[2] = <<>> /\ Len(s.arms[1]) = 1
        /\ IsAssign(s.arms[1][1])
        /\ Cond(s).k = "bin" /\ Cond(s).n \in Comparisons \ {"==", "!="}
       THEN Assign(Target(s.arms[1][1]),
                   Call(IF Cond(s).n \in {"<", "<="} THEN "min" ELSE "max",
                        Cond(s).x, 0))
       ELSE s]

FlattenZeroComparison(c) ==
  IF \/ c.k # "bin" \/ c.n \notin {"==", "!="}
     \/ \A i \in 1 .. 2 : c.x[i].k = "int"
     \/ \A i \in 1 .. 2 : c.x[i] # Num(0)
  THEN c
  ELSE LET rest == IF c.x[2] = Num(0) THEN c.x[1] ELSE c.x[2]
       IN IF c.n = "!=" THEN rest ELSE Not(rest)

SimplifyConditionPolarityHere(list) ==
  [i \in DOMAIN list |->
     IF list[i].k = "if" \/ IsLoop(list[i])
       THEN [list[i] EXCEPT !.x = <<FlattenZeroComparison(@[1])>>]
       ELSE list[i]]

\* the same plain assignments to the same region variables, and at least one
SameTuple(a, b) ==
  /\ a # <<>> /\ a = b
  /\ \A s \in ToSet(a) :
       Sets(s) /\ Name(s) \in Synthetic /\ SameExpr(Value(s), Value(s))

RECURSIVE FoldIdenticalArms(_)
FoldIdenticalArms(s) ==
  LET nested == s.arms[2] IN
  IF /\ Len(nested) = 1 /\ nested[1].k = "if"
     /\ SameTuple(s.arms[1], nested[1].arms[1])
  THEN FoldIdenticalArms(If(Bin("||", Cond(s), Cond(nested[1])),
                            s.arms[1], nested[1].arms[2]))
  ELSE s

FoldIdenticalNestedSCFArmsHere(list) ==
  [i \in DOMAIN list |-> IF list[i].k = "if" THEN FoldIdenticalArms(list[i])
                         ELSE list[i]]

RECURSIVE EliminateConstBranchesFrom(_, _)
EliminateConstBranchesFrom(list, i) ==
  IF i > Len(list) THEN list
  ELSE LET s == list[i] IN
       IF s.k = "if" /\ Cond(s).k = "int"
         THEN EliminateConstBranchesFrom(
                Splice(list, i, s.arms[IF Cond(s).v # 0 THEN 1 ELSE 2]), i)
       ELSE IF IsLoop(s) /\ Cond(s).k = "int" /\ Cond(s).v # 0
         THEN EliminateConstBranchesFrom(
                [list EXCEPT ![i].x = <<Num(1)>>], i + 1)
       ELSE EliminateConstBranchesFrom(list, i + 1)

EliminateConstBranchesHere(list) == EliminateConstBranchesFrom(list, 1)

-----------------------------------------------------------------------------
(***************************************************************************)
(* simplifyExpressions: the operands first, then the node itself.          *)
(***************************************************************************)
IsNum(e, v) == e = Num(v)
IsUn(op, e) == e.k = "un" /\ e.n = op
IsBin(op, e) == e.k = "bin" /\ e.n = op
IsCmp(e) == e.k = "bin" /\ e.n \in Comparisons
Observable(e) ==
  \E d \in ToSet(SubExprs(e)) : d.k \in {"call", "field"} \/ IsDeref(d)

\* what a load through null is shown as
NullLoad == Call("__helix_unknown", <<Text("null-based unresolved load")>>, 0)

SimplifyUnary(e) ==
  LET x == e.x[1] IN
  CASE e.n \in {"!", "-"} /\ IsUn(e.n, x)     -> x.x[1]
    [] <<e.n, x.k, x.n>> \in {<<"*", "un", "&">>, <<"&", "un", "*">>} -> x.x[1]
    [] e.n = "!" /\ x.k = "int"              -> Num(IF x.v = 0 THEN 1 ELSE 0)
    [] e.n = "~" /\ x.k = "int"              -> Num(-x.v - 1)
    [] e.n = "-" /\ x.k = "int"              -> Num(-x.v)
    [] e.n = "!" /\ IsCmp(x)                 -> [x EXCEPT !.n = FlipCmp[@]]
    [] OTHER                                 -> e

\* two comparisons joined bit by bit are joined as conditions; the limit on
\* nested conditions at 6573 compares two comparisons, never more than 1 + 1
SimplifyJoin(e) ==
  IF e.n \in {"&", "|"} /\ IsCmp(e.x[1]) /\ IsCmp(e.x[2])
    THEN [e EXCEPT !.n = IF @ = "&" THEN "&&" ELSE "||"] ELSE e

SimplifyBinary(e) ==
  LET l == e.x[1]
      r == e.x[2]
      same(ops, v) == e.n \in ops /\ IsNum(r, v)
  IN CASE same({"+", "-", "|", "^"}, 0) \/ same({"*", "/"}, 1)
            \/ same({"&"}, -1)                              -> l
       [] e.n = "+" /\ r.k = "int" /\ r.v < 0               -> Bin("-", l, Num(-r.v))
       [] e.n = "-" /\ IsBin("-", r) /\ SameExpr(l, r.x[1]) -> r.x[2]
       [] e.n = "-" /\ IsBin("-", l) /\ SameExpr(l.x[1], r) -> Un("-", l.x[2])
       [] same({"*", "&"}, 0) /\ ~Observable(l)             -> Num(0)
       [] same({"*"}, -1)                                   -> Un("-", l)
       [] e.n = "<<" /\ IsBin("<<", l) /\ l.x[2].k = "int" /\ r.k = "int" ->
            Bin("<<", l.x[1], Num(l.x[2].v + r.v))
       [] e.n \in ArithOps /\ l.k = "int" /\ r.k = "int"
            /\ ~(e.n = "/" /\ r.v = 0)                      -> Num(Arith(e.n, l.v, r.v))
       [] OTHER                                             -> e

RECURSIVE SimplifyExpr(_, _)
\* operands are values, also those of a place that is assigned
SimplifyExpr(e, isLValue) ==
  LET s == [e EXCEPT !.x = [i \in DOMAIN @ |-> SimplifyExpr(@[i], FALSE)]]
  IN CASE NullDeref(s) /\ ~isLValue -> NullLoad
       [] s.k = "un"  -> SimplifyUnary(s)
       [] s.k = "bin" -> SimplifyBinary(SimplifyJoin(s))
       [] OTHER       -> s

SimplifyHere(list) ==
  [i \in DOMAIN list |->
     [list[i] EXCEPT !.x = [j \in DOMAIN @ |->
                        SimplifyExpr(@[j], IsAssign(list[i]) /\ j = 1)]]]

-----------------------------------------------------------------------------
(***************************************************************************)
(* Returns and jumps.                                                      *)
(***************************************************************************)
\* an else that ends in the return that also follows the if
Redundant(s, next) ==
  /\ s.k = "if" /\ next.k = "return" /\ s.arms[2] # <<>>
  /\ LET last == Last(s.arms[2]) IN
     /\ last.k = "return"
     /\ \/ last.x = <<>> /\ next.x = <<>>
        \/ /\ last.x # <<>> /\ next.x # <<>>
           /\ ExprEquals(last.x[1], next.x[1])

RECURSIVE FoldRedundantReturnHere(_)
FoldRedundantReturnHere(list) ==
  LET hits == {i \in 1 .. Len(list) - 1 : Redundant(list[i], list[i + 1])} IN
  IF hits = {} THEN list
  ELSE FoldRedundantReturnHere(RemoveAt(list, First(hits) + 1))

RECURSIVE CollapseAssignBeforeReturnHere(_)
CollapseAssignBeforeReturnHere(list) ==
  LET hits == {i \in 1 .. Len(list) - 1 :
                 /\ Sets(list[i]) /\ list[i + 1].k = "return"
                 /\ list[i + 1].x = <<Target(list[i])>>}
  IN IF hits = {} THEN list
     ELSE LET i == First(hits) IN
          CollapseAssignBeforeReturnHere(
            Splice(Splice(list, i + 1, <<Return(Value(list[i]))>>), i, <<>>))

\* HasExitPath looks into branches only
RECURSIVE HasExitPath(_)
HasExitPath(body) ==
  \E s \in ToSet(body) :
    \/ s.k \in {"return", "break", "goto"}
    \/ s.k = "if" /\ \E i \in 1 .. 2 : HasExitPath(s.arms[i])

IsInfiniteLoop(s) ==
  /\ IsLoop(s) /\ Cond(s).k = "int" /\ Cond(s).v # 0
  /\ ~HasExitPath(s.arms[1])

\* TailHasSideEffect does not look into a switch
RECURSIVE TailHasSideEffect(_)
TailHasSideEffect(tail) ==
  \E s \in ToSet(tail) :
    /\ s.k # "switch"
    /\ \/ \E i \in DOMAIN s.x : HasCall(s.x[i])
       \/ \E i \in DOMAIN s.arms : TailHasSideEffect(s.arms[i])

RemoveDeadAfterReturnHere(list) ==
  LET ends == {i \in DOMAIN list :
                 \/ list[i].k \in {"return", "break", "continue", "goto"}
                 \/ IsInfiniteLoop(list[i])}
  IN IF ends = {} \/ TailHasSideEffect(From(list, First(ends) + 1)) THEN list
     ELSE SubSeq(list, 1, First(ends))

\* in the whole body only: its first statement that does something returns
RemoveUnreachableAfterFirstReturn(list) ==
  LET does == {i \in DOMAIN list : list[i].k # "label"}
  IN IF does # {} /\ list[First(does)].k = "return"
       THEN SubSeq(list, 1, First(does)) ELSE list

-----------------------------------------------------------------------------
(***************************************************************************)
(* Assignments and calls.                                                  *)
(***************************************************************************)
CompoundOps == {"+", "-", "*", "/", "%", "<<", ">>", "&", "|", "^"}
Commutative == {"+", "*", "&", "|", "^"}

TryCompound(s) ==
  IF ~Plain(s) \/ Value(s).k # "bin" \/ Value(s).n \notin CompoundOps THEN s
  ELSE LET l == Value(s).x[1]
           r == Value(s).x[2]
       IN IF ExprEquals(Target(s), l) THEN Compound(Value(s).n, Target(s), r)
          ELSE IF Value(s).n \in Commutative /\ ExprEquals(Target(s), r)
            THEN Compound(Value(s).n, Target(s), l)
          ELSE s

CompoundHere(list) ==
  [i \in DOMAIN list |-> IF IsAssign(list[i]) THEN TryCompound(list[i])
                         ELSE list[i]]

\* x -= x - y is x = y; x op= x op c drops the inner x
FoldDegenerate(s) ==
  LET l == Value(s).x[1]
      r == Value(s).x[2]
      isTarget(e) == SameExpr(Target(s), e)
  IN IF Value(s).k # "bin" \/ Value(s).n # s.n THEN s
     ELSE IF s.n = "-" /\ isTarget(l) THEN Assign(Target(s), r)
     ELSE IF s.n \notin Commutative THEN s
     ELSE IF isTarget(l) /\ r.k = "int" THEN Compound(s.n, Target(s), r)
     ELSE IF isTarget(r) /\ l.k = "int" THEN Compound(s.n, Target(s), l)
     ELSE s

FoldDegenerateCompoundsHere(list) ==
  [i \in DOMAIN list |-> IF IsAssign(list[i]) /\ list[i].n # ""
                           THEN FoldDegenerate(list[i]) ELSE list[i]]

\* Mutant: the scan passes over a branch
ReadsBeforeStraight(s, n) ==
  n \in VarsIn(IF IsAssign(s) THEN <<Value(s)>> ELSE s.x)

\* what the forward scan for the variable n makes of a statement
ReadsBefore(s, n) ==
  \/ s.k \notin {"assign", "expr", "return"}
  \/ n \in VarsIn(IF IsAssign(s) THEN <<Value(s)>> ELSE s.x)
Overwrites(s, n) == s.k = "return" \/ (Sets(s) /\ Name(s) = n)

DowngradeDeadAssignedCallsHere(list) ==
  [i \in DOMAIN list |->
     LET s == list[i]
         stops == {j \in i + 1 .. Len(list) :
                     ReadsBefore(list[j], Name(s)) \/ Overwrites(list[j], Name(s))}
     IN IF /\ Sets(s) /\ Value(s).k = "call"
           /\ stops # {} /\ ~ReadsBefore(list[First(stops)], Name(s))
        THEN Do(Value(s)) ELSE s]

-----------------------------------------------------------------------------
(***************************************************************************)
(* Loops that run once.                                                    *)
(***************************************************************************)
RECURSIVE ContainsLoopBreakOrContinue(_)
ContainsLoopBreakOrContinue(list) ==
  \E s \in ToSet(list) :
    \/ s.k \in {"break", "continue"}
    \/ s.k = "if" /\ \E i \in 1 .. 2 : ContainsLoopBreakOrContinue(s.arms[i])

\* <<v>> when the region variables known to hold a constant make e the number v
RECURSIVE EvaluateSCFConstant(_, _)
EvaluateSCFConstant(e, known) ==
  IF e.k = "int" THEN <<e.v>>
  ELSE IF e.k = "var" THEN (IF e.n \in DOMAIN known THEN known[e.n] ELSE <<>>)
  ELSE IF e.k = "cast" THEN EvaluateSCFConstant(e.x[1], known)
  ELSE IF e.k = "un" /\ e.n = "!"
    THEN LET c == EvaluateSCFConstant(e.x[1], known)
         IN IF c = <<>> THEN c ELSE <<IF c = <<0>> THEN 1 ELSE 0>>
  ELSE IF e.k = "bin" /\ e.n \in {"==", "!="}
    THEN LET l == EvaluateSCFConstant(e.x[1], known)
             r == EvaluateSCFConstant(e.x[2], known)
         IN IF l = <<>> \/ r = <<>> THEN <<>>
            ELSE <<IF (l = r) = (e.n = "==") THEN 1 ELSE 0>>
  ELSE <<>>

\* the constants known after the straight-line statements of a loop body
KnownAfter(body) ==
  FoldLeft(LAMBDA known, s :
             IF Sets(s) /\ Name(s) \in Synthetic
               THEN [n \in DOMAIN known \cup {Name(s)} |->
                       IF n = Name(s) THEN EvaluateSCFConstant(Value(s), known)
                       ELSE known[n]]
               ELSE known,
           <<>>, body)

HasProvablyFalseSyntheticGuard(s) ==
  /\ Uncast(Cond(s)).k = "var" /\ Uncast(Cond(s)).n \in Guards
  /\ \A t \in ToSet(s.arms[1]) : t.arms = <<>>
  /\ EvaluateSCFConstant(Cond(s), KnownAfter(s.arms[1])) = <<0>>

\* the body that runs once, or <<>> when the loop stays
RunsOnce(s) ==
  LET body == IF s.k = "dowhile" THEN s.arms[1] ELSE <<>>
      broken == body # <<>> /\ Last(body) = Break
      once == IF broken THEN Front(body) ELSE body
  IN IF /\ body # <<>>
        /\ broken \/ HasProvablyFalseSyntheticGuard(s)
        /\ ~ContainsLoopBreakOrContinue(once)
     THEN <<once>> ELSE <<>>

RECURSIVE UnwrapTrivialDoWhileHere(_)
UnwrapTrivialDoWhileHere(list) ==
  LET hits == {i \in DOMAIN list : RunsOnce(list[i]) # <<>>} IN
  IF hits = {} THEN list
  ELSE LET i == First(hits)
       IN UnwrapTrivialDoWhileHere(Splice(list, i, RunsOnce(list[i])[1]))
=============================================================================
