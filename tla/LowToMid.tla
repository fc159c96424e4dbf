------------------------------ MODULE LowToMid ------------------------------
(***************************************************************************)
(* The values of the Low tier, whose instructions also yield flags: the    *)
(* identities HelixLowSimplify removes, and the conversion to the Mid      *)
(* tier, whose operations yield one value.  The flags become comparisons,  *)
(* computed only where they are read.                                      *)
(* Sources: engine/src/passes/HelixLowToMid.cpp, HelixLowSimplify.cpp and  *)
(* its patterns                                                            *)
(***************************************************************************)
EXTENDS TierValue

Exact == {"Add", "Sub"}
Logic == {"And", "Or", "Xor"}
False == ArithConst(0, 1)

\* Mutant: a value keeps its width.
NeverCoerced(a, w) == a
\* a value of another width becomes the width of the arithmetic
Coerced(a, w) == IF a.w = w THEN a ELSE Cast("", w, a)
FixedWidth(n) == Marked(n, {"fixed_width_unsigned"})
BoolBinary(k, a, b) == BinOp(k, 1, a, b)
ZeroFlag(result, marks) ==
  Marked(BoolBinary("Eq", result, Const(0, result.w)), marks)
SignFlag(result) == BoolBinary("Lt", result, Const(0, result.w))

\* signed overflow, from the signs of the operands and of the result
OverflowFlag(kind, a, b, result) ==
  LET signOf(v) == BoolBinary("Lt", v, Const(0, v.w))
      relation == IF kind = "Add" THEN "Eq" ELSE "Ne"
  IN BoolBinary("LogAnd", BoolBinary(relation, signOf(a), signOf(b)),
                BoolBinary("Ne", SignFlag(result), signOf(a)))

\* the flags of producer that some operation of all reads
LiveFlags(producer, all) ==
  {f.k : f \in {g \in all : g.op = "flag" /\ g.x[1] = producer}}

-----------------------------------------------------------------------------
\* the patterns of the Low tier know the constants of the arith dialect
XorsSelf(n) == n.op = "lbin" /\ n.k = "Xor" /\ n.x[1] = n.x[2]
\* the right operand that leaves the left one as it is
NeutralOf == [Add |-> 0, Or |-> 0, Shl |-> 0, Shr |-> 0, Sar |-> 0,
              Mul |-> 1, IMul |-> 1, And |-> -1]
Neutral(n) == /\ n.op = "lbin" /\ n.k \in DOMAIN NeutralOf
              /\ n.x[2].op = "aconst" /\ n.x[2].v = NeutralOf[n.k]
Negates(n) == n.op = "lun" /\ n.k = "Neg"
DoubleNeg(n) == Negates(n) /\ Negates(n.x[1])
RedundantMovX(n) == n.op = "movx" /\ n.x[1].w = n.w

\* the store before a load is the one it reads
LoadAfterStore(n) == /\ n.op = "mread" /\ n.x[1].op = "mwrite"
                     /\ n.x[1].x[2] = n.x[2] /\ n.x[1].x[3].w = n.w

RECURSIVE LowSimplified(_, _, _)
\* what HelixLowSimplify makes of n: an instruction whose flags are read stays,
\* except where the flags are as constant as the result, and so does a load
\* that no store stands right before
LowSimplified(n, all, next) ==
  LET s == [n EXCEPT !.x = [i \in DOMAIN n.x |-> LowSimplified(n.x[i], all, next)]]
      unread == LiveFlags(n, all) = {}
  IN CASE XorsSelf(s) -> ArithConst(0, n.w)
       [] s.op = "flag" /\ s.x[1].op = "aconst" -> ArithConst(IF n.k = "zero" THEN -1 ELSE 0, 1)
       [] RedundantMovX(s) \/ (Neutral(s) /\ unread) -> s.x[1]
       [] DoubleNeg(s) /\ unread -> s.x[1].x[1]
       [] LoadAfterStore(s) /\ n \in next -> s.x[1].x[3]
       [] OTHER -> s

-----------------------------------------------------------------------------
\* a two-operand instruction: an addition or a subtraction some flag depends
\* on is computed on unsigned operands of its own width
BinOpResult(n, a, b, live) ==
  LET result == BinOp(LowKind[n.k], n.w, a, b)
      needsFixedResult == n.k \in Exact
        /\ ((live \cap {"zero", "sign", "overflow"} # {})
             \/ ("carry" \in live /\ n.k = "Add"))
  IN IF needsFixedResult THEN FixedWidth(result) ELSE result

\* Mutant: the carry of a subtraction is read off the result, as that of an
\* addition is.
BinOpFlagOfResult(n, flag, a, b, live) ==
  LET result == BinOpResult(n, a, b, live)
      marks == IF n.k \in Exact THEN {"fixed_width_compare"} ELSE {}
  IN CASE n.k \notin Exact \cup Logic -> UnknownOf(1)
       [] flag = "zero" -> ZeroFlag(result, marks)
       [] flag = "sign" -> SignFlag(result)
       [] n.k \in Logic -> False
       [] flag = "carry" -> BoolBinary("Ult", result, a)
       [] flag = "overflow" -> OverflowFlag(n.k, a, b, result)
BinOpFlag(n, flag, a, b, live) ==
  LET result == BinOpResult(n, a, b, live)
      marks == IF n.k \in Exact THEN {"fixed_width_compare"} ELSE {}
  IN CASE n.k \notin Exact \cup Logic -> UnknownOf(1)
       [] flag = "zero" -> ZeroFlag(result, marks)
       [] flag = "sign" -> SignFlag(result)
       [] n.k \in Logic -> False
       [] flag = "carry" /\ n.k = "Add" -> BoolBinary("Ult", result, a)
       [] flag = "carry" /\ n.k = "Sub" -> BoolBinary("Ult", a, b)
       [] flag = "overflow" -> OverflowFlag(n.k, a, b, result)

CmpFlag(flag, a, b) ==
  LET difference == FixedWidth(BinOp("Sub", a.w, a, b))
  IN CASE flag = "carry" -> BoolBinary("Ult", a, b)
       [] flag = "zero"  -> BoolBinary("Eq", a, b)
       [] flag = "sign"  -> SignFlag(difference)
       [] flag = "overflow" -> OverflowFlag("Sub", a, b, difference)

TestFlag(flag, a, b) ==
  LET both == BinOp("BitAnd", a.w, a, b)
  IN IF flag = "zero" THEN ZeroFlag(both, {}) ELSE SignFlag(both)

UnaryOpResult(n, a) ==
  CASE n.k = "Inc" -> BinOp("Add", n.w, a, Const(1, n.w))
    [] n.k = "Dec" -> BinOp("Sub", n.w, a, Const(1, n.w))
    [] n.k = "Not" -> UnOp("BitNot", n.w, a)
    [] OTHER -> UnOp(n.k, n.w, a)

UnaryOpFlag(n, flag, a) ==
  CASE n.k \in {"Not", "Bswap"} -> UnknownOf(1)
    [] n.k \in {"Bsf", "Bsr"} ->
         IF flag = "zero" THEN BoolBinary("Eq", a, Const(0, a.w))
         ELSE UnknownOf(1)
    [] flag = "zero" -> ZeroFlag(UnaryOpResult(n, a), {})
    [] flag = "sign" -> SignFlag(UnaryOpResult(n, a))

\* the condition codes the lifter spells with the flags of one comparison:
\* SF xor OF, that or ZF, CF or ZF
FlagOf(n, flag) == n.op = "flag" /\ n.k = flag /\ n.x[1].op = "lcmp"
Pairs(n) == {<<n.x[1], n.x[2]>>, <<n.x[2], n.x[1]>>}
IsLess(n) == n.op = "arith" /\ n.k = "xor"
  /\ \E p \in Pairs(n) : FlagOf(p[1], "sign") /\ FlagOf(p[2], "overflow")
                          /\ p[1].x[1] = p[2].x[1]
IsLessEqual(n) == n.op = "arith" /\ n.k = "or"
  /\ \E p \in Pairs(n) : IsLess(p[1]) /\ FlagOf(p[2], "zero")
                          /\ p[1].x[1].x[1] = p[2].x[1]
IsBelowEqual(n) == n.op = "arith" /\ n.k = "or"
  /\ \E p \in Pairs(n) : FlagOf(p[1], "carry") /\ FlagOf(p[2], "zero")
                          /\ p[1].x[1] = p[2].x[1]
CompositeKind(n) == CASE IsLess(n) -> "Lt" [] IsLessEqual(n) -> "Le"
                      [] IsBelowEqual(n) -> "Ule" [] OTHER -> "none"
\* the comparison whose flags n combines
ComparedBy(n) == (IF n.x[1].op = "flag" THEN n.x[1] ELSE n.x[2]).x[1]

\* base + index * scale + displacement
LeaSum(n, a, i) ==
  LET scaled == BinOp("Add", n.w, a, BinOp("Mul", n.w, i, Const(n.x[3].v, n.w)))
  IN IF n.x[4].v = 0 THEN scaled ELSE BinOp("Add", n.w, scaled, Const(n.x[4].v, n.w))

\* base + constant, in that order or the other, is a field of what base points
\* to; not where base is a sum itself
IsLlvmAdd(n) == n.op = "llvm" /\ n.k = "add"
FieldOffsets(n) ==
  {i \in DOMAIN n.x : /\ IsLlvmAdd(n) /\ n.x[i].op = "const"
                      /\ ~IsLlvmAdd(n.x[3 - i]) /\ n.x[3 - i].op # "const"
                      /\ n.x[i].v > 0}
\* the address of an access, when mid is what became of its operand
FieldPtr(n, mid) ==
  IF FieldOffsets(n) = {} THEN mid
  ELSE LET i == CHOOSE j \in FieldOffsets(n) : TRUE
       IN Node("fieldptr", "", n.w, n.x[i].v, <<mid.x[3 - i]>>, {})

\* a call goes to the address its name spells, or else to a constant; what is
\* added to a base is taken for the offset of a virtual function
CalleeAddress(n) == IF n.v # 0 THEN n.v
                    ELSE IF n.x[2].op \in {"const", "aconst"} THEN n.x[2].v ELSE 0
VtableOffset(target) ==
  LET addends == {target.x[i] : i \in {j \in DOMAIN target.x :
                     /\ IsLlvmAdd(target) \/ (target.op = "arith" /\ target.k = "add")
                     /\ target.x[j].op \in {"const", "aconst"} /\ target.x[j].v >= 0}}
  IN addends # {} \/ (target.op = "lea" /\ target.x[4].v > 0)
CallToMidCall(n, x) ==
  LET marks == IF CalleeAddress(n) # 0 THEN {}
               ELSE {"indirect"} \cup (IF VtableOffset(n.x[2]) THEN {"vtable"} ELSE {})
  IN Node("mcall", "", 0, CalleeAddress(n), <<x[1], x[3]>>, marks)

RECURSIVE ToMid(_, _)
\* the Mid value of n; all is every value of the program, for its uses
ToMid(n, all) ==
  LET mid(m) == ToMid(m, all)
      of(m, i, w) == Coerced(mid(m.x[i]), w)
      p == n.x[1]
  IN CASE n.op = "lbin" -> BinOpResult(n, of(n, 1, n.w), of(n, 2, n.w), LiveFlags(n, all))
       [] n.op = "lun" -> UnaryOpResult(n, of(n, 1, n.w))
       [] n.op = "flag" ->
            (CASE p.op = "lbin" -> BinOpFlag(p, n.k, of(p, 1, p.w), of(p, 2, p.w), LiveFlags(p, all))
               [] p.op = "lcmp" -> CmpFlag(n.k, of(p, 1, p.w), of(p, 2, p.w))
               [] p.op = "ltest" -> TestFlag(n.k, mid(p.x[1]), mid(p.x[2]))
               [] p.op = "lun" -> UnaryOpFlag(p, n.k, of(p, 1, p.w)))
       [] CompositeKind(n) # "none" ->
            LET c == ComparedBy(n)
            IN BoolBinary(CompositeKind(n), of(c, 1, c.w), of(c, 2, c.w))
       [] n.op = "cmov" -> Select(mid(p), mid(n.x[2]), mid(n.x[3]))
       [] n.op = "lea" -> LeaSum(n, mid(p), mid(n.x[2]))
       [] n.op = "movx" -> Cast(n.k, n.w, mid(p))
       [] n.op = "mread" -> [n EXCEPT !.op = "load", !.x = <<mid(p), FieldPtr(n.x[2], mid(n.x[2]))>>]
       [] n.op = "mwrite" ->
            [n EXCEPT !.op = "store", !.x = <<mid(p), FieldPtr(n.x[2], mid(n.x[2])), mid(n.x[3])>>]
       [] n.op = "lcall" -> CallToMidCall(n, [i \in DOMAIN n.x |-> mid(n.x[i])])
       [] OTHER -> [n EXCEPT !.x = [i \in DOMAIN n.x |-> mid(n.x[i])]]
=============================================================================
