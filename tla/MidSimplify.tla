----------------------------- MODULE MidSimplify -----------------------------
(***************************************************************************)
(* The rewriting of Mid values: the algebraic rules of HelixMidSimplify,   *)
(* constant folding, and the recovery of divisions from multiplications by *)
(* magic numbers.  A rule is an operator that returns the replacements it  *)
(* offers for a node: none, when it does not apply.  A node that is its    *)
(* own replacement stops the rules that follow.                            *)
(* Sources: engine/src/passes/HelixMidSimplify.cpp, ConstantFoldingPass.cpp*)
(* and RecoverMagicDivision.cpp                                            *)
(***************************************************************************)
EXTENDS TierValue

\* a 64-bit number of the pass itself
Word(v) == AsSigned(LongW, v % 2^LongW)
\* the number a constant is to the rules, and the bits it has at width w
IsConst(n) == n.op \in {"const", "aconst"}
Is(n, v) == IsConst(n) /\ n.v = v
BitsOf(n, w) == n.v % 2^w
Products == {"Mul", "UMul", "SMul"}
Rule(applies, replacement) == IF applies THEN {replacement} ELSE {}
IsBin(n, kinds) == n.op = "bin" /\ n.k \in kinds
IsUn(n, kind) == n.op = "un" /\ n.k = kind

-----------------------------------------------------------------------------
\* constants

Foldable == {"Add", "Sub", "Mul", "UMul", "SMul", "Div", "SDiv", "UDiv", "Mod",
             "Shl", "Shr", "Sar", "BitAnd", "BitOr", "BitXor", "Eq", "Ne",
             "Lt", "Le", "Gt", "Ge", "Ult", "Ule", "Ugt", "Uge",
             "LogAnd", "LogOr"}
\* both operands are constants: the machine's result, except where the
\* machine has none
FoldConstants(n) ==
  LET a == n.x[1]
      b == n.x[2]
      r == Bits(n.k, a.w, BitsOf(a, a.w), BitsOf(b, a.w))
      \* a remainder that overflows is zero
      bits == IF n.k = "Mod" /\ r = Undefined /\ BitsOf(b, a.w) # 0 THEN 0 ELSE r
      shiftOutOfRange == n.k \in {"Shl", "Shr", "Sar"} /\ b.v \notin 0 .. a.w - 1
  IN IF n.k \notin Foldable \/ shiftOutOfRange \/ bits = Undefined THEN n
     ELSE ArithConst(AsSigned(n.w, bits % 2^n.w), n.w)
BothConst(n) == n.op = "bin" /\ IsConst(n.x[1]) /\ IsConst(n.x[2])
FoldBoth(n) == Rule(BothConst(n), FoldConstants(n))

\* Mutant: two constants are exchanged as well.
TermOrderAlways(n) ==
  Rule(n.k \in {"Add", "Mul", "BitAnd", "BitOr", "BitXor"} /\ IsConst(n.x[1]),
       BinOp(n.k, n.w, n.x[2], n.x[1]))
\* a constant goes to the right of a commutative operation
TermOrder(n) ==
  Rule(n.k \in {"Add", "Mul", "BitAnd", "BitOr", "BitXor"}
         /\ IsConst(n.x[1]) /\ ~IsConst(n.x[2]),
       BinOp(n.k, n.w, n.x[2], n.x[1]))

Identities(n) ==
  Rule(n.k = "Add" /\ Is(n.x[2], 0), n.x[1])
  \cup Rule(n.k \in Products /\ Is(n.x[2], 1), n.x[1])
  \cup Rule(n.k \in Products /\ Is(n.x[2], 0), Const(0, n.w))

SubSelf(n) == Rule(n.k = "Sub" /\ n.x[1] = n.x[2], Const(0, n.w))
CompareSelf(n) ==
  Rule(n.x[1] = n.x[2],
       IF n.k \in {"Eq", "Le", "Ge", "Ule", "Uge"} THEN ArithConst(AsSigned(n.w, 1), n.w)
       ELSE IF n.k \in {"Ne", "Lt", "Gt", "Ult", "Ugt"} THEN ArithConst(0, n.w)
       ELSE n)

\* (x << a) << b -> x << (a + b), and the right shifts
DoubleShift(n) ==
  LET inner == n.x[1]
      sum == inner.x[2].v + n.x[2].v
  IN Rule(n.k \in {"Shl", "Shr", "Sar"} /\ IsConst(n.x[2])
            /\ IsBin(inner, {n.k}) /\ IsConst(inner.x[2])
            /\ sum \in 0 .. LongW - 1,
          BinOp(n.k, n.w, inner.x[1], Const(sum, n.w)))

\* a - (b - c) -> (a + c) - b
DoubleSub(n) ==
  LET inner == n.x[2]
  IN Rule(n.k = "Sub" /\ IsBin(inner, {"Sub"}),
          BinOp("Sub", n.w, BinOp("Add", n.w, n.x[1], inner.x[2]), inner.x[1]))

\* (a & c) | (b & c) -> (a | b) & c, whichever operands are shared
AndDistribute(n) ==
  LET l == n.x[1]
      r == n.x[2]
      shared == {p \in {<<2, 2>>, <<1, 1>>, <<1, 2>>, <<2, 1>>} : l.x[p[1]] = r.x[p[2]]}
      p == CHOOSE q \in shared :
             \A o \in shared : q = <<2, 2>> \/ o = q \/ (q = <<1, 1>> /\ o # <<2, 2>>)
                                \/ (q = <<1, 2>> /\ o = <<2, 1>>)
  IN IF n.k = "BitOr" /\ IsBin(l, {"BitAnd"}) /\ IsBin(r, {"BitAnd"}) /\ shared # {}
     THEN {BinOp("BitAnd", n.w,
                 BinOp("BitOr", n.w, l.x[3 - p[1]], r.x[3 - p[2]]), l.x[p[1]])}
     ELSE {}

\* x < 0 -> x >> (width - 1), as a truth value
Less2Zero(n) ==
  LET a == n.x[1]
      sign == BinOp("Sar", a.w, a, Const(a.w - 1, a.w))
  IN Rule(n.k = "Lt" /\ Is(n.x[2], 0),
          IF n.w = a.w THEN sign ELSE Cast("", n.w, sign))

\* x == 0 -> !x, x != 0 -> (bool)x; the rules (x - y) == 0 -> x == y and
\* ((x >> n) & 1) == 0 -> !(x & (1 << n)) come after it and never apply
EqualZero(n) ==
  LET a == n.x[1]
  IN Rule(n.k = "Eq" /\ Is(n.x[2], 0), UnOp("LogNot", n.w, a))
     \cup Rule(n.k = "Ne" /\ Is(n.x[2], 0), IF a.w = n.w THEN a ELSE Cast("", n.w, a))

\* (x & mask) >> n -> (x >> n) & (mask >> n), the mask as a 64-bit number
ShiftBitops(n) ==
  LET inner == n.x[1]
      count == n.x[2].v
  IN Rule(n.k \in {"Shr", "Sar"} /\ IsConst(n.x[2]) /\ count \in 0 .. LongW - 1
            /\ IsBin(inner, {"BitAnd"}) /\ IsConst(inner.x[2]),
          BinOp("BitAnd", n.w, BinOp(n.k, n.w, inner.x[1], n.x[2]),
                Const(Word((inner.x[2].v % 2^LongW) \div 2^count), n.w)))

\* (a * n) + (b * n) -> (a + b) * n
AddMultCollapse(n) ==
  LET l == n.x[1]
      r == n.x[2]
  IN Rule(n.k = "Add" /\ IsBin(l, {"Mul"}) /\ IsBin(r, {"Mul"})
            /\ IsConst(l.x[2]) /\ IsConst(r.x[2]) /\ l.x[2].v = r.x[2].v,
          BinOp("Mul", n.w, BinOp("Add", n.w, l.x[1], r.x[1]), Const(l.x[2].v, n.w)))

MulNegOne(n) == Rule(n.k \in Products /\ Is(n.x[2], -1), UnOp("Neg", n.w, n.x[1]))
Shift2Mult(n) ==
  Rule(n.k = "Shl" /\ IsConst(n.x[2]) /\ n.x[2].v \in 1 .. IntW - 1,
       BinOp("Mul", n.w, n.x[1], Const(2^n.x[2].v, n.w)))
Sub2Add(n) ==
  Rule(n.k = "Sub" /\ IsUn(n.x[2], "Neg"), BinOp("Add", n.w, n.x[1], n.x[2].x[1]))

\* the first rule that applies
FirstOf(n, offers) ==
  LET first == {i \in DOMAIN offers : offers[i] # {} /\ \A j \in 1 .. i - 1 : offers[j] = {}}
  IN IF first = {} THEN n
     ELSE CHOOSE r \in offers[CHOOSE i \in first : TRUE] : TRUE
SimplifyBinExpr(n) ==
  FirstOf(n, <<SubSelf(n), TermOrder(n), Identities(n), FoldBoth(n), CompareSelf(n),
               DoubleShift(n), DoubleSub(n), AndDistribute(n), Less2Zero(n),
               EqualZero(n), ShiftBitops(n), AddMultCollapse(n), MulNegOne(n),
               Shift2Mult(n), Sub2Add(n)>>)

\* -(-x) -> x; !(a && b) -> !a || !b and its dual, on truth values only
SimplifyUnExpr(n) ==
  LET a == n.x[1]
      dual == IF a.k = "LogAnd" THEN "LogOr" ELSE "LogAnd"
      Negated(m) == UnOp("LogNot", n.w, m)
  IN IF n.k = "Neg" /\ IsUn(a, "Neg")
       THEN IF a.x[1].w = n.w THEN a.x[1] ELSE Cast("", n.w, a.x[1])
     ELSE IF n.k = "LogNot" /\ n.w = 1 /\ IsBin(a, {"LogAnd", "LogOr"})
       THEN BinOp(dual, n.w, Negated(a.x[1]), Negated(a.x[2]))
     ELSE n

SimplifyCast(n) ==
  LET inner == n.x[1]
  IN IF inner.w = n.w THEN inner
     ELSE IF n.k = "Bitcast" /\ inner.op = "cast" /\ inner.k = "Bitcast"
              /\ inner.x[1].w = n.w THEN inner.x[1]
     ELSE n

\* x < 0 ? a : (x == 0 ? b : c) is only marked
SimplifySelect(n) ==
  LET c == n.x[1]
      inner == n.x[3]
      ic == inner.x[1]
  IN IF IsBin(c, {"Lt"}) /\ Is(c.x[2], 0) /\ inner.op = "select"
         /\ IsBin(ic, {"Eq"}) /\ Is(ic.x[2], 0) /\ ic.x[1] = c.x[1]
     THEN Marked(n, {"three_way_cmp"}) ELSE n

RECURSIVE Simplified(_), Folded(_), Divided(_), Reduced(_)
\* one round over the values, operands first: every node is rewritten once,
\* and what a rule makes waits for the next round
Simplified(n) ==
  LET m == [n EXCEPT !.x = [i \in DOMAIN n.x |-> Simplified(n.x[i])]]
  IN CASE m.op = "bin" -> SimplifyBinExpr(m)
       [] m.op = "un" -> SimplifyUnExpr(m)
       [] m.op = "cast" -> SimplifyCast(m)
       [] m.op = "select" -> SimplifySelect(m)
       [] OTHER -> m

\* the constant folding pass
Folded(n) ==
  LET m == [n EXCEPT !.x = [i \in DOMAIN n.x |-> Folded(n.x[i])]]
  IN IF BothConst(m) THEN FoldConstants(m) ELSE m

-----------------------------------------------------------------------------
\* common subexpressions: equal trees are one value already, so what is left
\* are loads.  A load of the block that reads the address an earlier one read
\* is that one, unless a store or a call of the block comes before it.
SeenByCSE == {"store", "mcall", "rep"}
RECURSIVE Replaced(_, _, _)
Replaced(n, old, new) ==
  IF n = old THEN new
  ELSE [n EXCEPT !.x = [i \in DOMAIN n.x |-> Replaced(n.x[i], old, new)]]
FirstIn(s) == CHOOSE i \in s : \A j \in s : i <= j
SameLoad(m, n) == m.op = "load" /\ n.op = "load" /\ m.w = n.w /\ m.x[2] = n.x[2]
Eliminate(vs, i) ==
  LET before == 1 .. i - 1
      originals == {j \in before : SameLoad(vs[j], vs[i])}
      storeSeen == \E j \in before : vs[j].op \in SeenByCSE
  IN IF originals = {} \/ storeSeen THEN vs
     ELSE [j \in DOMAIN vs |-> Replaced(vs[j], vs[i], vs[FirstIn(originals)])]
EliminateCSE(vs) == FoldLeftDomain(Eliminate, vs, vs)

-----------------------------------------------------------------------------
\* division by a constant, from x * magic >> shift

CeilPow2Div(shift, d) == (2^shift + d - 1) \div d
\* for a product of 64 bits the bound 1 << 64 comes out as 1: none qualifies
DivisorLimit(bits) == IF bits < LongW THEN 2^bits ELSE 1
Near(magic, shift, d) == CeilPow2Div(shift, d) \in magic - 1 .. magic + 1
\* the divisor read back from a magic number, 0 for none
ReverseMagicNumber(magic, shift, bits) ==
  LET d == IF shift < LongW THEN 2^shift \div magic
           ELSE (2^(shift + 1) + magic) \div (2 * magic)  \* rounded
      others == <<d + 1, d - 1>>
      fit == {i \in 1 .. 2 : others[i] >= 2 /\ Near(magic, shift, others[i])}
  IN IF d < 2 \/ d > DivisorLimit(bits) THEN 0
     ELSE IF Near(magic, shift, d) THEN d
     ELSE IF 1 \in fit THEN others[1] ELSE IF 2 \in fit THEN others[2] ELSE 0

IsConstOp(n) == n.op = "const"
ByMagic(m) == IsBin(m, Products) /\ IsConstOp(m.x[2]) /\ m.x[2].v > 1
\* the product and the shifts of n, directly or by way of its upper half;
\* the way through a variable is left out
MagicProduct(n) ==
  IF ByMagic(n.x[1]) THEN {<<n.x[1], n.x[2].v>>}
  ELSE IF IsBin(n.x[1], {"Shr", "Sar"}) /\ IsConstOp(n.x[1].x[2])
            /\ n.x[1].x[2].v \in {IntW, LongW} /\ ByMagic(n.x[1].x[1])
    THEN {<<n.x[1].x[1], n.x[1].x[2].v + n.x[2].v>>}
  ELSE {}
RecoverDivision(n) ==
  LET found == MagicProduct(n)
      p == CHOOSE q \in found : TRUE
      d == ReverseMagicNumber(p[1].x[2].v, p[2], p[1].w)
  IN IF IsBin(n, {"Shr", "Sar"}) /\ IsConstOp(n.x[2]) /\ n.x[2].v > 0
         /\ found # {}
     THEN IF d = 0 THEN n
          ELSE BinOp(IF n.k = "Sar" THEN "SDiv" ELSE "UDiv", n.w, p[1].x[1], Const(d, n.w))
     ELSE n
Divided(n) ==
  RecoverDivision([n EXCEPT !.x = [i \in DOMAIN n.x |-> Divided(n.x[i])]])

\* x - (x / d) * d -> x % d
RecoverModulo(n) ==
  LET q == n.x[2].x[1]
  IN IF IsBin(n, {"Sub"}) /\ IsBin(n.x[2], Products)
         /\ IsBin(q, {"Div", "SDiv", "UDiv"})
         /\ q.x[1] = n.x[1] /\ n.x[2].x[2] = q.x[2]
     THEN BinOp("Mod", n.w, n.x[1], q.x[2]) ELSE n
Reduced(n) ==
  RecoverModulo([n EXCEPT !.x = [i \in DOMAIN n.x |-> Reduced(n.x[i])]])
=============================================================================
