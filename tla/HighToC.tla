------------------------------ MODULE HighToC ------------------------------
(***************************************************************************)
(* From Mid values to C: the conversion to the High tier, the C expression *)
(* the builder makes of a value of the Mid or High tier or of the LLVM and *)
(* arith dialects, and what a C compiler makes of that expression.         *)
(* Sources: engine/src/passes/HelixMidToHigh.cpp, engine/src/cast/         *)
(* CAstBuilder.cpp, and the literals of CAstPrinter.cpp                    *)
(***************************************************************************)
EXTENDS TierValue

Signedness(kind) == IF kind \in {"UMul", "UDiv"} THEN {"unsigned"}
                    ELSE IF kind \in {"SMul", "SDiv"} THEN {"signed"} ELSE {}
MapBinaryOp(kind) == CASE kind \in {"UMul", "SMul"} -> "Mul"
                       [] kind \in {"UDiv", "SDiv"} -> "Div"
                       [] OTHER -> kind
Helpers == {"Bswap", "Bsf", "Bsr"}

\* the name of a call: that of its address, of the slot of a virtual function,
\* or none
CallName(n) == IF "indirect" \notin n.at THEN "sub"
               ELSE IF "vtable" \in n.at THEN "__vtable" ELSE "__indirect_call"

HelperName(n) == IF n.op = "push" THEN "__helix_stack_push"
                 ELSE IF n.k = "movs" THEN "memcpy" ELSE "memset"
\* a store assigns to what its address points to
AssignThrough(n, x) ==
  LET target == Node("deref", "", x[3].w, 0, <<x[1], x[2]>>, {})
  IN [n EXCEPT !.op = "assign", !.x = <<x[1], target, x[3]>>]

RECURSIVE ToHigh(_)
ToHigh(n) ==
  LET x == [i \in DOMAIN n.x |-> ToHigh(n.x[i])]
  IN CASE n.op = "bin" /\ n.k \in {"Rol", "Ror"} -> Call(n.k, n.w, x)
       [] n.op = "bin" -> HighBin(MapBinaryOp(n.k), n.w, x, n.at \cup Signedness(n.k))
       [] n.op = "un" /\ n.k \in Helpers -> Call(n.k, n.w, x)
       [] n.op = "un" -> [n EXCEPT !.op = "hun", !.x = x]
       [] n.op = "cast" -> [n EXCEPT !.op = "hcast", !.x = x]
       [] n.op = "select" -> Node("ternary", "", n.w, 0, x, {})
       [] n.op = "const" -> [n EXCEPT !.op = "intlit"]
       [] n.op = "load" -> [n EXCEPT !.op = "deref", !.x = x]
       [] n.op = "store" -> AssignThrough(n, x)
       [] n.op = "mcall" -> [n EXCEPT !.op = "hcall", !.k = CallName(n), !.x = x]
       [] n.op \in {"rep", "push"} -> [n EXCEPT !.op = "hcall", !.k = HelperName(n), !.x = x]
       [] OTHER -> [n EXCEPT !.x = x]

-----------------------------------------------------------------------------
\* C expressions, with the type the builder notes on them: a width, 1 for
\* bool, and a sign

Sign(signed) == IF signed THEN {"signed"} ELSE {}
\* convertType makes every integer signed
Typed(w) == Sign(w > 1)
CVar(name, w)      == Node("var", name, w, 0, <<>>, Typed(w))
CLit(v, w)         == Node("lit", "", w, v, <<>>, Typed(w))
CBin(op, w, a, b)  == Node("cbin", op, w, 0, <<a, b>>, Typed(w))
CUn(op, w, a)      == Node("cun", op, w, 0, <<a>>, Typed(w))
CCast(w, signed, a) == Node("ccast", "", w, 0, <<a>>, Sign(signed))
CCond(w, c, a, b)  == Node("cond", "", w, 0, <<c, a, b>>, Typed(w))
CCall(callee, w, x) == Node("ccall", callee, w, 0, x, Typed(w))

\* the C types have the widths of the machine; anything else is 64 bits wide
ComparisonWidth(w) == IF w \in {NarrowW, IntW, LongW} THEN w ELSE LongW
CastForOrderedComparison(e, w, signed) == CCast(ComparisonWidth(w), signed, e)
CastForIntegerExtension(e, from, to, signed) ==
  LET source == IF from = 1 THEN CCast(1, FALSE, e)
                ELSE CastForOrderedComparison(e, from, signed)
      asSource == IF e.w = source.w /\ e.at = source.at THEN e ELSE source
  IN IF from = 1 /\ signed
     THEN CCond(ComparisonWidth(to), e, CLit(-1, ComparisonWidth(to)),
                CLit(0, ComparisonWidth(to)))
     ELSE CastForOrderedComparison(asSource, to, signed)

SignedOrdered == {"Lt", "Le", "Gt", "Ge"}
UnsignedOrdered == {"Ult", "Ule", "Ugt", "Uge"}
COperator(kind) ==
  CASE kind = "Ult" -> "Lt" [] kind = "Ule" -> "Le" [] kind = "Ugt" -> "Gt"
    [] kind = "Uge" -> "Ge" [] kind = "UMod" -> "Mod" [] OTHER -> MapBinaryOp(kind)
\* Mutant: only the ordered comparisons are cast.
BinaryCastsOrdered(n, e, i) ==
  IF n.k \in SignedOrdered \cup UnsignedOrdered
  THEN CastForOrderedComparison(e, n.x[i].w, n.k \in SignedOrdered) ELSE e
\* a binary operation of the High tier: the casts its attributes and its kind
\* ask for, one inside the other
BinaryCasts(n, e, i) ==
  LET as(f, signed) == CastForOrderedComparison(f, n.x[i].w, signed)
      fixed == IF n.at \cap {"fixed_width_unsigned", "fixed_width_compare"} # {}
               THEN as(e, FALSE) ELSE e
      ordered == IF n.k \in SignedOrdered \cup UnsignedOrdered
                 THEN as(fixed, n.k \in SignedOrdered) ELSE fixed
  IN IF n.at \cap {"unsigned", "signed"} # {} THEN as(ordered, "signed" \in n.at)
     ELSE ordered

\* a cast that says no more than that the value gets wider is left out where
\* an operation or an assignment of the High tier uses it
ElidedCast(n, users) ==
  /\ n.k \notin {"ZeroExtend", "SignExtend"} /\ n.w >= n.x[1].w
  /\ "assign" \in users \/ "hbin" \in users
Extended(n, e, signed) == IF n.w = n.x[1].w THEN e
                          ELSE CastForIntegerExtension(e, n.x[1].w, n.w, signed)
Resized(n, e) == IF n.w = n.x[1].w THEN e ELSE CCast(n.w, n.w > 1, e)
CastValue(n, e, users) ==
  IF ElidedCast(n, users) THEN e
  ELSE IF n.k \in {"ZeroExtend", "SignExtend"} THEN Extended(n, e, n.k = "SignExtend")
  ELSE Resized(n, e)

\* The LLVM dialect: a sum of an address and a number is one of two numbers,
\* and divisions and ordered comparisons have their operands cast.
PreserveIntegerAddressOperand(e, w) ==
  IF e.at \cap {"pointer", "void"} # {} THEN CCast(w, FALSE, e) ELSE e
Compares == {"eq", "ne", "slt", "sle", "sgt", "sge", "ult", "ule", "ugt", "uge"}
LlvmCompare(n, e) ==
  LET k == KindOf[n.k]
      as(i) == IF k \in SignedOrdered \cup UnsignedOrdered
               THEN CastForOrderedComparison(e[i], n.x[i].w, k \in SignedOrdered) ELSE e[i]
  IN CBin(COperator(k), 1, as(1), as(2))
LlvmBinary(n, e) ==
  LET as(i) == CASE n.k \in {"add", "sub"} -> PreserveIntegerAddressOperand(e[i], n.w)
                 [] n.k \in {"udiv", "urem", "sdiv", "srem"} ->
                      CastForOrderedComparison(e[i], n.x[i].w, n.k \in {"sdiv", "srem"})
                 [] OTHER -> e[i]
  IN CBin(COperator(KindOf[n.k]), n.w, as(1), as(2))

\* an address is void*, an offset in bytes, those of an aggregate taken for one
BuildGep(n, e) ==
  LET bytes == IF "aggregate" \in n.at THEN 1 ELSE n.v
      constant == n.x[2].op = "intlit"
      offset == IF constant THEN CLit(n.x[2].v * bytes, LongW)
                ELSE IF bytes > 1 THEN CBin("Mul", LongW, e[2], CLit(bytes, LongW)) ELSE e[2]
  IN IF constant /\ n.x[2].v * bytes = 0 THEN e[1]
     ELSE [CBin("Add", LongW, e[1], offset) EXCEPT !.at = {"void"}]
BuildAddress(n, e) ==
  CASE n.k = "inttoptr" -> [CCast(LongW, FALSE, e[1]) EXCEPT !.at = {"void"}]
    [] n.k \in {"ptrtoint", "bitcast"} -> CCast(n.w, n.w > 1, e[1])
    [] n.k = "freeze" -> e[1]
    [] n.k = "gep" -> BuildGep(n, e)

\* a vector is its lane zero; whatever is put into one is all of it
BuildLane(n, e) ==
  CASE n.k = "insertelement" -> e[2]
    [] n.k = "shufflevector" \/ n.v = 0 -> e[1]
    [] OTHER -> Node("subscript", "", n.w, n.v, e, Typed(n.w))

\* floats compare alike, ordered or not; what only asks for the order is "!="
FloatComparison(k) == IF k \in {"ord", "uno"} THEN "Ne" ELSE (Ordered @@ Unordered)[k]
BuildFloat(n, e) ==
  CASE n.k \in DOMAIN FloatKind ->
         [CBin(FloatKind[n.k], n.w, e[1], e[2]) EXCEPT !.at = {"float"}]
    [] n.k = "fneg" -> [CUn("Neg", n.w, e[1]) EXCEPT !.at = {"float"}]
    [] n.k \in {"fptosi", "fptoui"} -> CCast(n.w, n.w > 1, e[1])
    [] n.k \in FloatCasts -> [CCast(n.w, FALSE, e[1]) EXCEPT !.at = {"float"}]
    [] OTHER -> CBin(FloatComparison(n.k), 1, e[1], e[2])

\* llvm's intrinsics as functions; two of them share a name
IntrinsicName == [smax |-> "max", umax |-> "max", smin |-> "min", umin |-> "min",
                  abs |-> "abs", bswap |-> "Bswap"]

BuildLlvm(n, e) ==
  CASE n.k = "select" -> CCond(n.w, e[1], e[2], e[3])
    [] n.k \in {"zext", "sext"} -> Extended(n, e[1], n.k = "sext")
    [] n.k = "trunc" -> Resized(n, e[1])
    [] n.k \in Compares -> LlvmCompare(n, e)
    [] n.k \in DOMAIN KindOf \ Compares -> LlvmBinary(n, e)
    [] n.k \in Addresses -> BuildAddress(n, e)
    [] n.k \in Lanes -> BuildLane(n, e)
    [] n.k \in DOMAIN IntrinsicName -> CCall(IntrinsicName[n.k], n.w, e)
    [] OTHER -> BuildFloat(n, e)

\* the arith dialect has nothing cast, not even an extension
ArithBinary(n, e) == CBin(COperator(KindOf[n.k]), n.w, e[1], e[2])
BuildArith(n, e) ==
  CASE n.k = "select" -> CCond(n.w, e[1], e[2], e[3])
    [] n.k \in {"extui", "extsi", "trunci"} -> Resized(n, e[1])
    [] OTHER -> ArithBinary(n, e)

\* a word at an address that is cast to a pointer to such words, or the field
\* of a structure, which has the type of its address
CDeref(n, e) ==
  IF n.x[2].op = "fieldptr" THEN Node("field", "", n.x[2].w, n.x[2].v, <<e>>, Typed(n.x[2].w))
  ELSE Node("cderef", "", n.w, 0, <<e>>, Typed(n.w))
\* a statement; the object of a virtual function is not among its arguments
BuildEffect(n, e) ==
  CASE n.op = "assign" -> Node("cassign", "", n.w, 0, e, {})
    [] n.op = "llvmstore" ->
         Node("cassign", "", n.w, 0, <<Node("cderef", "", LongW, 0, <<e[1]>>, Typed(LongW)), e[2]>>, {})
    [] n.op = "region" -> Node("cif", "", 0, 0, e, {})
    [] n.op = "hcall" -> Node("ccall", n.k, 0, n.v, IF n.k = "__vtable" THEN Tail(e) ELSE e, {})

\* what reads n among the values all; a root is assigned
UsersOf(n, all, assigned) == {m.op : m \in {u \in all : \E i \in DOMAIN u.x : u.x[i] = n}}
                               \cup (IF n \in assigned THEN {"assign"} ELSE {})

RECURSIVE BuildExpression(_, _, _)
BuildExpression(n, all, assigned) ==
  LET e == [i \in DOMAIN n.x |-> BuildExpression(n.x[i], all, assigned)]
  IN CASE n.op = "read" -> [CVar(n.k, n.w) EXCEPT !.at = IF n.at = {} THEN @ ELSE n.at]
       [] n.op \in {"intlit", "aconst"} -> CLit(n.v, n.w)
       [] n.op = "unknown" -> CCall("__helix_unknown", n.w, <<>>)
       [] n.op = "hbin" -> CBin(COperator(n.k), n.w, BinaryCasts(n, e[1], 1), BinaryCasts(n, e[2], 2))
       [] n.op = "hun" -> CUn(n.k, n.w, e[1])
       [] n.op = "call" -> CCall(n.k, n.w, e)
       [] n.op = "hcast" -> CastValue(n, e[1], UsersOf(n, all, assigned))
       [] n.op = "ternary" -> CCond(n.w, e[1], e[2], e[3])
       [] n.op = "deref" -> CDeref(n, e[2])
       [] n.op = "fieldptr" -> e[1]
       [] n.op \in Effects -> BuildEffect(n, Tail(e))
       [] n.op = "arith" -> BuildArith(n, e)
       [] n.op = "llvm" -> BuildLlvm(n, e)

-----------------------------------------------------------------------------
\* what a C compiler with a two's complement int of IntW bits and a long of
\* LongW bits, both wrapping, makes of an expression: a value of a type

\* lack is Undefined or Unknown for a value that is not there; float is TRUE of
\* a float, and to the size of what an address points to, 0 of a number
Value(w, s, v) == [w |-> w, s |-> s, v |-> v, lack |-> 0, float |-> FALSE, to |-> 0]
Lacking(lack, t) == IF lack = 0 THEN t ELSE [t EXCEPT !.lack = lack, !.v = 0]
Conv(w, s, v) == Value(w, s, IF w = 1 THEN Bit(v # 0)
                             ELSE IF s THEN AsSigned(w, v % 2^w) ELSE v % 2^w)
NotANumber == 2^(2 * LongW)
FloatValue(w, v) == [Value(w, TRUE, IF v \in -(NaN(w) - 1) .. NaN(w) - 1 THEN v ELSE NotANumber)
                       EXCEPT !.float = TRUE]
Address(v, to) == [Value(LongW, FALSE, v % 2^LongW) EXCEPT !.to = to]
\* a variable is declared a pointer to words of so many bytes
Pointee == 4
PointsTo(at) == IF "pointer" \in at THEN Pointee ELSE IF "void" \in at THEN 1 ELSE 0
BitsOfC(w, t) == IF t.v = NotANumber THEN NaN(w) ELSE t.v % 2^w
FromBits(w, at, signed, bits) ==
  IF "float" \in at THEN FloatValue(w, IF bits = NaN(w) THEN NotANumber ELSE AsSigned(w, bits))
  ELSE IF PointsTo(at) > 0 THEN Address(bits, PointsTo(at)) ELSE Conv(w, signed, bits)
\* t as the type of a cast; a float out of range has none
CastOf(w, at, t) ==
  IF "float" \in at THEN FloatValue(w, t.v)
  ELSE IF PointsTo(at) > 0 THEN Address(t.v, PointsTo(at))
  ELSE IF t.float /\ w > 1 /\ Conv(w, "signed" \in at, t.v).v # t.v
    THEN Lacking(Undefined, Value(w, TRUE, 0))
  ELSE Conv(w, "signed" \in at, t.v)
Promote(t) == IF t.w < IntW THEN [t EXCEPT !.w = IntW, !.s = TRUE] ELSE t
Wider(t, u) == IF t.w # u.w THEN IF t.w > u.w THEN t ELSE u
               ELSE [t EXCEPT !.s = t.s /\ u.s]
Truth(b) == Value(IntW, TRUE, Bit(b))
\* numbers from -256 to 256 and negative ones print in decimal, others in
\* hexadecimal, whose type may be unsigned
Literal(v) ==
  IF v \in -(2^(IntW - 1) - 1) .. 2^(IntW - 1) - 1 THEN Value(IntW, TRUE, v)
  ELSE IF v \in 0 .. 2^IntW - 1 THEN Value(IntW, FALSE, v)
  ELSE Value(LongW, TRUE, v)

CBinary(op, t, u) ==
  LET p == Promote(t)
      c == Wider(p, Promote(u))
      a == Conv(c.w, c.s, t.v).v
      b == Conv(c.w, c.s, u.v).v
      To(v) == Conv(c.w, c.s, v)
  IN CASE op = "LogAnd" -> Truth(t.v # 0 /\ u.v # 0)
       [] op = "LogOr" -> Truth(t.v # 0 \/ u.v # 0)
       [] op = "Eq" -> Truth(a = b)
       [] op = "Ne" -> Truth(a # b)
       [] op = "Lt" -> Truth(a < b)
       [] op = "Le" -> Truth(a <= b)
       [] op = "Gt" -> Truth(a > b)
       [] op = "Ge" -> Truth(a >= b)
       [] op = "Add" -> To(a + b)
       [] op = "Sub" -> To(a - b)
       [] op = "Mul" -> To(a * b)
       [] op \in {"Div", "Mod"} ->
            IF b = 0 \/ (c.s /\ b = -1 /\ a = -(2^(c.w - 1))) THEN Lacking(Undefined, To(0))
            ELSE To(IF op = "Div" THEN DivZ(a, b) ELSE RemZ(a, b))
       \* both right shifts print as >>
       [] op \in {"Shl", "Shr", "Sar"} ->
            IF u.v \notin 0 .. p.w - 1 THEN Lacking(Undefined, Conv(p.w, p.s, 0))
            ELSE IF op = "Shl" THEN Conv(p.w, p.s, t.v * 2^u.v)
            ELSE Conv(p.w, p.s, t.v \div 2^u.v)
       [] OTHER -> To(Bits(op, c.w, a % 2^c.w, b % 2^c.w))
\* with a float both operands are floats, which have no remainder
CFloat(op, t, u) ==
  LET of(z) == IF z.float THEN z.w ELSE 0
      w == IF of(t) > of(u) THEN of(t) ELSE of(u)
      a == FloatValue(w, t.v)
      b == FloatValue(w, u.v)
      bits == FloatArith(op, w, BitsOfC(w, a), BitsOfC(w, b))
  IN IF op \in {"Add", "Sub", "Mul", "Div"} THEN FromBits(w, {"float"}, TRUE, bits)
     ELSE IF op = "Mod" THEN Lacking(Unknown, Value(w, TRUE, 0))
     ELSE IF NotANumber \in {a.v, b.v} THEN Truth(op = "Ne")
     ELSE CBinary(op, Value(LongW, TRUE, a.v), Value(LongW, TRUE, b.v))
\* what is added to an address counts in what it points to
CAddress(op, t, u) ==
  LET to == IF t.to > 0 THEN t.to ELSE u.to
      step(v) == IF v.to > 0 THEN v.v ELSE v.v * to
  IN IF (t.to = 0 \/ u.to = 0) /\ op \in {"Add", "Sub"}
       THEN Address(IF op = "Add" THEN step(t) + step(u) ELSE step(t) - step(u), to)
       ELSE CBinary(op, [t EXCEPT !.to = 0], [u EXCEPT !.to = 0])
CTwo(op, t, u) == CASE t.float \/ u.float -> CFloat(op, t, u)
                    [] ~t.float /\ ~u.float /\ t.to + u.to > 0 -> CAddress(op, t, u)
                    [] OTHER -> CBinary(op, t, u)
CUnary(op, t) ==
  LET p == Promote(t)
  IN IF t.float THEN FloatValue(t.w, IF t.v = NotANumber THEN t.v ELSE -t.v)
     ELSE IF op = "LogNot" THEN Truth(t.v = 0)
     ELSE Conv(p.w, p.s, IF op = "Neg" THEN -t.v ELSE -t.v - 1)
\* max and min compare as C does, abs is a function of an int
CFunction(callee, t) ==
  LET c == Wider(Promote(t[1]), Promote(t[Len(t)]))
      of(i) == Conv(c.w, c.s, t[i].v)
      int == Conv(IntW, TRUE, t[1].v).v
  IN CASE callee = "max" -> IF of(1).v < of(2).v THEN of(2) ELSE of(1)
       [] callee = "min" -> IF of(1).v < of(2).v THEN of(1) ELSE of(2)
       [] callee = "abs" -> Conv(IntW, TRUE, IF int < 0 THEN -int ELSE int)
\* the helpers take and return the patterns of their width
CHelper(callee, w, t) ==
  LET a == t[1].v % 2^w
      r == IF callee \in {"Rol", "Ror"} THEN Bits(callee, w, a, t[2].v % 2^w)
           ELSE UnBits(callee, w, a)
  IN IF r < 0 THEN Lacking(r, Value(w, FALSE, 0)) ELSE Value(w, FALSE, r)

RECURSIVE EvalC(_, _, _)
\* e when the variables hold the bits of env; those in unsigned are declared so
EvalC(e, env, unsigned) ==
  LET t == [i \in DOMAIN e.x |-> EvalC(e.x[i], env, unsigned)]
      arms == Wider(Promote(t[2]), Promote(t[3]))
      arm == IF t[1].v # 0 THEN t[2] ELSE t[3]
      lacking == {t[i].lack : i \in DOMAIN t} \ {0}
      lack == IF e.op = "cond" THEN IF t[1].lack # 0 THEN t[1].lack ELSE arm.lack
              ELSE IF Undefined \in lacking THEN Undefined
              ELSE IF lacking # {} THEN Unknown ELSE 0
  IN Lacking(lack,
       CASE e.op = "var" -> FromBits(e.w, e.at, e.w > 1 /\ e.k \notin unsigned, env[e.k])
         [] e.op = "lit" -> Literal(e.v)
         [] e.op = "cbin" -> CTwo(e.k, t[1], t[2])
         [] e.op = "cun" -> CUnary(e.k, t[1])
         [] e.op = "ccast" -> CastOf(e.w, e.at, t[1])
         [] e.op = "cond" -> Conv(arms.w, arms.s, arm.v)
         [] e.op = "ccall" /\ e.k = "__helix_unknown" ->
              Lacking(Unknown, Conv(e.w, e.w > 1, 0))
         [] e.op = "ccall" /\ e.k \in {"max", "min", "abs"} -> CFunction(e.k, t)
         [] e.op = "ccall" /\ e.k \notin {"max", "min", "abs", "__helix_unknown"} ->
              CHelper(e.k, e.w, t)
         \* the word that memory holds where the statement is
         [] e.op \in {"cderef", "field"} ->
              FromBits(e.w, {}, TRUE, WordAt(env["here"], (t[1].v + e.v) % 2^LongW, env))
         \* a subscript of what is no array
         [] e.op = "subscript" -> Lacking(Unknown, Value(e.w, TRUE, 0)))

\* the bits of a variable of width w after the assignment of e
AssignedBits(e, w, env, unsigned) ==
  LET t == EvalC(e, env, unsigned)
  IN IF t.lack # 0 THEN t.lack ELSE IF w = 1 THEN Bit(t.v # 0) ELSE BitsOfC(w, t)
=============================================================================
