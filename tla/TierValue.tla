----------------------------- MODULE TierValue ------------------------------
(***************************************************************************)
(* Values of the engine's three dialect tiers: what an operation of the    *)
(* Low, Mid or High tier computes, as the tree of the operations it reads. *)
(* A node is an operation, its kind, the width of its result in bits, a    *)
(* number (constant, scale, which read of a variable), its operands and    *)
(* its helix.* attributes.  Equal trees are one SSA value; every read of a *)
(* variable is a value of its own, told apart by its number.               *)
(*                                                                         *)
(* Widths are scaled: 1 is i1, NarrowW stands for i8 and i16, IntW for i32 *)
(* (the int of C) and LongW for i64 and an address.  A float of w bits is  *)
(* a small integer or not a number, whose bits are the lowest of all.      *)
(*                                                                         *)
(* Meaning is the reference the tiers are held to: the bits an x86         *)
(* processor computes.  Undefined is a result the machine leaves open or   *)
(* traps on, Unknown a flag it leaves undefined or the tiers do not follow.*)
(***************************************************************************)
EXTENDS Integers, Sequences, FiniteSets, SequencesExt, Bitwise
CONSTANTS NarrowW, IntW, LongW

Node(op, k, w, v, x, at) ==
  [op |-> op, k |-> k, w |-> w, v |-> v, x |-> x, at |-> at]

Read(n, w, which) == Node("read", n, w, which, <<>>, {})
Const(v, w)       == Node("const", "", w, v, <<>>, {})
UnknownOf(w)      == Node("unknown", "", w, 0, <<>>, {})
Marked(n, marks)  == [n EXCEPT !.at = @ \cup marks]
BinOp(k, w, a, b) == Node("bin", k, w, 0, <<a, b>>, {})
UnOp(k, w, a)     == Node("un", k, w, 0, <<a>>, {})
Cast(k, w, a)     == Node("cast", k, w, 0, <<a>>, {})
Select(c, a, b)   == Node("select", "", a.w, 0, <<c, a, b>>, {})
\* arith.constant keeps the sign of its bits
ArithConst(v, w)  == Node("aconst", "", w, v, <<>>, {})

\* the operations of the Low tier; a flag is a result of its producer
LowBin(k, a, b)   == Node("lbin", k, a.w, 0, <<a, b>>, {})
LowUn(k, a)       == Node("lun", k, a.w, 0, <<a>>, {})
LowCmp(a, b)      == Node("lcmp", "", a.w, 0, <<a, b>>, {})
LowTest(a, b)     == Node("ltest", "", a.w, 0, <<a, b>>, {})
Flag(k, producer) == Node("flag", k, 1, 0, <<producer>>, {})
CMov(c, a, b)     == Node("cmov", "", a.w, 0, <<c, a, b>>, {})
Lea(a, i, scale, disp) == Node("lea", "", a.w, 0, <<a, i, scale, disp>>, {})
MovX(k, w, a)     == Node("movx", k, w, 0, <<a>>, {})
\* the operations of the High tier that the Mid tier does not have
HighBin(k, w, x, at) == Node("hbin", k, w, 0, x, at)
Call(callee, w, x)   == Node("call", callee, w, 0, x, {})
\* operations of the LLVM and arith dialects, which every tier lets through
Llvm(k, w, x)     == Node("llvm", k, w, 0, x, {})
Arith(k, w, x)    == Node("arith", k, w, 0, x, {})
\* an index into an array of size bytes each; a lane of a vector, of which a
\* variable keeps lane zero
Gep(size, base, i) == Node("llvm", "gep", LongW, size, <<base, i>>, {})
Lane(k, lane, x)  == Node("llvm", k, x[Len(x)].w, lane, x, {})

\* Memory: an access names the memory before it, that is the effect that left
\* it.  A load has an address, a store an address and a value.
Memory             == Node("read", "memory", LongW, 0, <<>>, {"memory"})
Load(w, mem, addr) == Node("mread", "", w, 0, <<mem, addr>>, {})
Store(mem, addr, a) == Node("mwrite", "", a.w, 0, <<mem, addr, a>>, {})
\* a call of a computed address, or by a name that spells one
LowCall(k, named, mem, target, arg) == Node("lcall", k, 0, named, <<mem, target, arg>>, {})
\* memory copied or filled; a push; a store that a condition guards
LowRep(k, mem, dst, a, count) == Node("rep", k, 0, 0, <<mem, dst, a, count>>, {})
Push(mem, a)       == Node("push", "", a.w, 0, <<mem, a>>, {})
Guarded(mem, store) == Node("region", "", 0, 0, <<mem, store>>, {})
LlvmStore(mem, addr, a) == [Store(mem, addr, a) EXCEPT !.op = "llvmstore"]

Loads == {"mread", "load", "deref"}
Effects == {"mwrite", "store", "assign", "llvmstore", "lcall", "mcall", "hcall",
            "rep", "push", "region"}
Operands(n) == IF n.op \in Loads \cup Effects THEN Tail(n.x) ELSE n.x

RECURSIVE Within(_), ReadsOf(_)
\* n and every value it is computed from
Within(n) == {n} \cup UNION {Within(Operands(n)[i]) : i \in DOMAIN Operands(n)}
WithinAll(ns) == UNION {Within(ns[i]) : i \in DOMAIN ns}
\* the variables n depends on, those behind the memory it reads included
ReadsOf(n) == IF n.op = "read" THEN {n} ELSE UNION {ReadsOf(n.x[i]) : i \in DOMAIN n.x}

-----------------------------------------------------------------------------
Undefined == -2
Unknown == -1
Bit(b) == IF b THEN 1 ELSE 0
AsSigned(w, a) == IF a >= 2^(w - 1) THEN a - 2^w ELSE a
\* division and remainder round towards zero
DivZ(a, b) == LET q == (IF a < 0 THEN -a ELSE a) \div (IF b < 0 THEN -b ELSE b)
              IN IF (a < 0) = (b < 0) THEN q ELSE -q
RemZ(a, b) == a - b * DivZ(a, b)

\* the bits of a binary operation on the w-bit patterns a and b
Bits(k, w, a, b) ==
  LET sa == AsSigned(w, a)
      sb == AsSigned(w, b)
  IN CASE k = "Add" -> (a + b) % 2^w
       [] k = "Sub" -> (a - b) % 2^w
       [] k \in {"Mul", "UMul", "SMul"} -> (a * b) % 2^w
       [] k = "UDiv" -> IF b = 0 THEN Undefined ELSE a \div b
       [] k = "UMod" -> IF b = 0 THEN Undefined ELSE a % b
       [] k \in {"Div", "SDiv", "Mod"} ->
            IF b = 0 \/ (sb = -1 /\ sa = -(2^(w - 1))) THEN Undefined
            ELSE (IF k = "Mod" THEN RemZ(sa, sb) ELSE DivZ(sa, sb)) % 2^w
       [] k = "BitAnd" -> a & b
       [] k = "BitOr"  -> a + b - (a & b)
       [] k = "BitXor" -> a + b - 2 * (a & b)
       [] k \in {"Shl", "Shr", "Sar"} ->
            IF b >= w THEN Undefined
            ELSE IF k = "Shl" THEN (a * 2^b) % 2^w
            ELSE IF k = "Shr" THEN a \div 2^b ELSE (sa \div 2^b) % 2^w
       [] k = "Rol" -> LET r == b % w
                       IN ((a * 2^r) % 2^w) + (a \div 2^(w - r))
       [] k = "Ror" -> LET r == b % w
                       IN (a \div 2^r) + ((a * 2^(w - r)) % 2^w)
       [] k = "Eq"  -> Bit(a = b)
       [] k = "Ne"  -> Bit(a # b)
       [] k = "Lt"  -> Bit(sa < sb)
       [] k = "Le"  -> Bit(sa <= sb)
       [] k = "Gt"  -> Bit(sa > sb)
       [] k = "Ge"  -> Bit(sa >= sb)
       [] k = "Ult" -> Bit(a < b)
       [] k = "Ule" -> Bit(a <= b)
       [] k = "Ugt" -> Bit(a > b)
       [] k = "Uge" -> Bit(a >= b)
       [] k = "LogAnd" -> Bit(a # 0 /\ b # 0)
       [] k = "LogOr"  -> Bit(a # 0 \/ b # 0)

UnBits(k, w, a) ==
  CASE k = "Neg"    -> (-a) % 2^w
    [] k \in {"Not", "BitNot"} -> 2^w - 1 - a
    [] k = "LogNot" -> Bit(a = 0)
    [] k = "Inc"    -> (a + 1) % 2^w
    [] k = "Dec"    -> (a - 1) % 2^w
    \* a width is too small to hold bytes: the halves are swapped
    [] k = "Bswap"  -> Bits("Rol", w, a, w \div 2)
    [] k = "Bsf"    -> IF a = 0 THEN Undefined
                       ELSE CHOOSE i \in 0 .. w - 1 :
                              a % 2^i = 0 /\ (a \div 2^i) % 2 = 1
    [] k = "Bsr"    -> IF a = 0 THEN Undefined
                       ELSE CHOOSE i \in 0 .. w - 1 : a \div 2^i = 1

\* a width change: only an extension of i1 to itself keeps one bit
CastBits(k, from, to, a) ==
  IF to = 1 /\ k = "" THEN Bit(a # 0)
  ELSE IF k = "SignExtend" THEN AsSigned(from, a) % 2^to ELSE a % 2^to

\* the kinds of the LLVM and arith dialects in the words of the Mid tier
KindOf == [add |-> "Add", sub |-> "Sub", mul |-> "Mul", udiv |-> "UDiv",
           sdiv |-> "SDiv", urem |-> "UMod", srem |-> "Mod", and |-> "BitAnd",
           or |-> "BitOr", xor |-> "BitXor", shl |-> "Shl", lshr |-> "Shr",
           ashr |-> "Sar", eq |-> "Eq", ne |-> "Ne", slt |-> "Lt",
           sle |-> "Le", sgt |-> "Gt", sge |-> "Ge", ult |-> "Ult",
           ule |-> "Ule", ugt |-> "Ugt", uge |-> "Uge"]
LowKind == [Add |-> "Add", Sub |-> "Sub", Mul |-> "UMul", IMul |-> "SMul",
            Div |-> "UDiv", IDiv |-> "SDiv", And |-> "BitAnd", Or |-> "BitOr",
            Xor |-> "BitXor", Shl |-> "Shl", Shr |-> "Shr", Sar |-> "Sar",
            Rol |-> "Rol", Ror |-> "Ror"]

\* the flag k an instruction leaves
FlagBits(k, producer, a, b) ==
  LET w == producer.w
      top(v) == v >= 2^(w - 1)
      isCmp == producer.op = "lcmp"
      kind == IF isCmp THEN "Sub"
              ELSE IF producer.op = "ltest" THEN "And" ELSE producer.k
      r == IF producer.op = "lun" THEN UnBits(kind, w, a)
           ELSE Bits(LowKind[kind], w, a, b)
  IN IF kind \in {"Bsf", "Bsr"} /\ k = "zero" THEN Bit(a = 0)
     ELSE IF kind \notin {"Add", "Sub", "And", "Or", "Xor",
                          "Inc", "Dec", "Neg"} THEN Unknown
     ELSE CASE k = "zero"  -> Bit(r = 0)
            [] k = "sign"  -> Bit(top(r))
            [] k = "carry" -> IF kind = "Add" THEN Bit(a + b >= 2^w)
                              ELSE IF kind = "Sub" THEN Bit(a < b) ELSE 0
            [] k = "overflow" ->
                 IF kind = "Add" THEN Bit(top(a) = top(b) /\ top(r) # top(a))
                 ELSE IF kind = "Sub"
                   THEN Bit(top(a) # top(b) /\ top(r) # top(a))
                 ELSE 0

\* floats: NaN, and the bits of the integer v
NaN(w) == 2^(w - 1)
FloatBits(w, v) == IF v \in -(NaN(w) - 1) .. NaN(w) - 1 THEN v % 2^w ELSE NaN(w)
FloatKind == [fadd |-> "Add", fsub |-> "Sub", fmul |-> "Mul", fdiv |-> "Div", frem |-> "Mod"]
FloatArith(kind, w, a, b) ==
  LET s == AsSigned(w, a)
      t == AsSigned(w, b)
  IN IF NaN(w) \in {a, b} \/ (t = 0 /\ kind \in {"Div", "Mod"}) THEN NaN(w)
     ELSE FloatBits(w, CASE kind = "Add" -> s + t [] kind = "Sub" -> s - t [] kind = "Mul" -> s * t
                         [] kind = "Div" -> DivZ(s, t) [] kind = "Mod" -> RemZ(s, t))
\* an ordered comparison is false of what is not a number, an unordered true
Ordered == [oeq |-> "Eq", one |-> "Ne", olt |-> "Lt", ole |-> "Le", ogt |-> "Gt", oge |-> "Ge"]
Unordered == [ueq |-> "Eq", une |-> "Ne", f_ult |-> "Lt", f_ule |-> "Le", f_ugt |-> "Gt", f_uge |-> "Ge"]
FloatCompare(k, w, a, b) ==
  IF NaN(w) \in {a, b} THEN Bit(k \in DOMAIN Unordered \cup {"uno"})
  ELSE IF k \in {"ord", "uno"} THEN Bit(k = "ord")
  ELSE Bits((Ordered @@ Unordered)[k], w, a, b)
FloatCasts == {"sitofp", "uitofp", "fpext", "fptrunc", "fptosi", "fptoui"}
FloatCast(k, from, to, a) ==
  LET s == AsSigned(from, a)
  IN CASE k = "sitofp" -> FloatBits(to, s)
       [] k = "uitofp" -> FloatBits(to, a)
       [] k \in {"fpext", "fptrunc"} -> IF a = NaN(from) THEN NaN(to) ELSE FloatBits(to, s)
       [] k = "fptosi" -> IF a # NaN(from) /\ s \in -NaN(to) .. NaN(to) - 1 THEN s % 2^to ELSE Undefined
       [] k = "fptoui" -> IF a # NaN(from) /\ s \in 0 .. 2^to - 1 THEN s ELSE Undefined

Extremes == {"smax", "smin", "umax", "umin"}
Extreme(k, w, a, b) ==
  LET less == IF k \in {"smax", "smin"} THEN AsSigned(w, a) < AsSigned(w, b) ELSE a < b
  IN IF less = (k \in {"smin", "umin"}) THEN a ELSE b

Addresses == {"gep", "inttoptr", "ptrtoint", "bitcast", "freeze"}
Lanes == {"extractelement", "insertelement", "shufflevector"}
\* what is peculiar to the LLVM dialect
LlvmBits(n, a) ==
  CASE n.k = "gep" -> (a[1] + n.v * AsSigned(n.x[2].w, a[2])) % 2^n.w
    [] n.k \in Addresses \ {"gep"} -> a[1] % 2^n.w
    [] n.k = "insertelement" -> IF n.v = 0 THEN a[2] ELSE a[1]
    [] n.k \in Lanes \ {"insertelement"} -> IF n.v = 0 THEN a[1] ELSE Unknown
    [] n.k \in DOMAIN FloatKind -> FloatArith(FloatKind[n.k], n.w, a[1], a[2])
    [] n.k = "fneg" -> (-a[1]) % 2^n.w
    [] n.k \in FloatCasts -> FloatCast(n.k, n.x[1].w, n.w, a[1])
    [] n.k \in Extremes -> Extreme(n.k, n.w, a[1], a[2])
    [] n.k = "abs" -> LET s == AsSigned(n.w, a[1]) IN (IF s < 0 THEN -s ELSE s) % 2^n.w
    [] n.k = "bswap" -> UnBits("Bswap", n.w, a[1])
    [] OTHER -> FloatCompare(n.k, n.x[1].w, a[1], a[2])

\* the address and the value n stores, in any tier
StoredBy(n) ==
  CASE n.op \in {"mwrite", "store", "llvmstore"} -> <<n.x[2], n.x[3]>>
    [] n.op = "assign" -> <<n.x[2].x[2], n.x[3]>>
    [] n.op = "region" /\ n.x[2].op = "assign" -> <<n.x[2].x[2].x[2], n.x[2].x[3]>>
    [] n.op = "region" /\ n.x[2].op # "assign" -> <<n.x[2].x[2], n.x[2].x[3]>>
    [] OTHER -> <<>>

RECURSIVE Meaning(_, _), WordAt(_, _, _)
\* the word at an address: at first all words differ, a store changes as many
\* bits as its value has, and any other effect may leave every word another
WordAt(mem, address, env) ==
  LET stored == StoredBy(mem)
      before == WordAt(mem.x[1], address, env)
  IN IF mem.op = "read" THEN env[mem.k] + address
     ELSE IF stored = <<>> THEN before + 1
     ELSE IF Meaning(stored[1], env) # address THEN before
     ELSE before - (before % 2^(stored[2].w)) + Meaning(stored[2], env)

\* the bits of n when the variables hold the bits env gives them
Meaning(n, env) ==
  LET a == [i \in DOMAIN n.x |-> Meaning(n.x[i], env)]
      arg(i) == IF i \in DOMAIN a THEN a[i] ELSE 0
  IN CASE n.op = "read" -> env[n.k] % 2^n.w
       [] n.op \in {"const", "aconst", "intlit"} -> n.v % 2^n.w
       [] n.op = "unknown" -> Unknown
       [] n.op \in Loads -> WordAt(n.x[1], a[2], env) % 2^n.w
       [] n.op = "fieldptr" -> (a[1] + n.v) % 2^n.w
       [] n.op = "flag" ->
            LET p == n.x[1]
                of(i) == IF i \in DOMAIN p.x THEN Meaning(p.x[i], env) ELSE 0
            IN IF of(1) < 0 THEN of(1) ELSE IF of(2) < 0 THEN of(2)
               ELSE FlagBits(n.k, p, of(1), of(2))
       [] n.op \in {"select", "cmov", "ternary"} \/ (n.op \in {"llvm", "arith"} /\ n.k = "select") ->
            IF a[1] < 0 THEN a[1] ELSE IF a[1] # 0 THEN a[2] ELSE a[3]
       [] \E i \in DOMAIN a : a[i] = Undefined -> Undefined
       [] \E i \in DOMAIN a : a[i] = Unknown   -> Unknown
       [] n.op = "bin" -> Bits(n.k, n.x[1].w, a[1], a[2])
       [] n.op = "lbin" -> Bits(LowKind[n.k], n.w, a[1], a[2])
       [] n.op = "hbin" -> Bits(IF n.k = "Div" /\ "unsigned" \in n.at THEN "UDiv" ELSE n.k,
                                n.x[1].w, a[1], a[2])
       [] n.op = "call" /\ n.k \in {"Rol", "Ror"} -> Bits(n.k, n.w, a[1], a[2])
       [] n.op \in {"un", "lun", "hun", "call"} -> UnBits(n.k, n.x[1].w, a[1])
       [] n.op \in {"cast", "hcast"} -> CastBits(n.k, n.x[1].w, n.w, a[1])
       [] n.op = "movx" -> CastBits(n.k, n.x[1].w, n.w, a[1])
       [] n.op = "lea" -> (a[1] + a[2] * a[3] + a[4]) % 2^n.w
       [] n.op \in {"llvm", "arith"} /\ n.k \in {"zext", "trunc", "extui", "trunci"} ->
            a[1] % 2^n.w
       [] n.op \in {"llvm", "arith"} /\ n.k \in {"sext", "extsi"} ->
            CastBits("SignExtend", n.x[1].w, n.w, a[1])
       [] n.op \in {"llvm", "arith"} /\ n.k \in DOMAIN KindOf ->
            Bits(KindOf[n.k], n.x[1].w, a[1], a[2])
       [] OTHER -> LlvmBits(n, a)

\* a value may replace another unless the machine leaves that one open
Refines(before, after) == before = Undefined \/ after = before
=============================================================================
