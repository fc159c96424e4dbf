---------------------------- MODULE MCValueTiers ----------------------------
(***************************************************************************)
(* The values tried: what the lifter makes of one or two instructions.     *)
(***************************************************************************)
EXTENDS ValueTiers

\* the first and the second variable of a width
A(w) == Read("a", w, 1)
B(w) == Read("b", w, 1)
K(v, w) == Const(v, w)
Widths == {NarrowW, IntW, LongW}

\* the result of an instruction beside the flags read from it
Instructions(w) ==
  {LowBin(k, A(w), B(w)) : k \in DOMAIN LowKind}
  \cup {LowBin(k, A(w), K(v, w)) : k \in {"Add", "Sub", "And"}, v \in {0, 1, -1}}
  \cup {LowCmp(A(w), b) : b \in {B(w), A(w), K(0, w), K(3, w), K(-1, w)}}
  \cup {LowTest(A(w), b) : b \in {A(w), B(w), K(1, w)}}
  \cup {LowUn(k, A(w)) : k \in {"Neg", "Not", "Inc", "Dec", "Bsf", "Bsr", "Bswap"}}
AllFlags == {"zero", "sign", "carry", "overflow"}
FlagsOf(p) == IF p.op = "ltest" THEN {"zero", "sign"}
              ELSE IF p.op = "lun" THEN {"zero", "sign"} ELSE AllFlags
WithFlags ==
  UNION {{<<Flag(f, p)>> : f \in FlagsOf(p)} : p \in UNION {Instructions(w) : w \in Widths}}
  \cup UNION {{<<p, Flag(f, p)>> : f \in FlagsOf(p)} :
                p \in {q \in UNION {Instructions(w) : w \in Widths} : q.op \in {"lbin", "lun"}}}

\* the condition codes, from one comparison and from two
XorOf(f, g) == Arith("xor", 1, <<f, g>>)
OrOf(f, g) == Arith("or", 1, <<f, g>>)
Conditions(c, d) ==
  LET less == XorOf(Flag("sign", c), Flag("overflow", d))
  IN {less, OrOf(Flag("zero", d), less), OrOf(less, Flag("zero", c)),
      OrOf(Flag("carry", c), Flag("zero", d)), XorOf(Flag("zero", c), ArithConst(-1, 1))}
Comparisons(w) == {LowCmp(A(w), B(w)), LowCmp(A(w), K(1, w))}
Conditional ==
  {<<f>> : f \in UNION {Conditions(c, d) : c, d \in Comparisons(IntW)}}
  \cup {<<f>> : f \in UNION {Conditions(c, c) : c \in Comparisons(NarrowW) \cup Comparisons(LongW)}}
  \cup UNION {{<<CMov(f, A(w), B(w))>> : f \in Conditions(LowCmp(B(w), K(0, w)), LowCmp(B(w), K(0, w)))} :
                 w \in {NarrowW, LongW}}

\* one instruction on the result of another, with constants
Steps(a) ==
  LET w == a.w
  IN {LowBin(k, a, K(v, a.w)) : k \in {"Shl", "Shr", "Sar"}, v \in {1, a.w - 1}}
     \cup {LowBin(k, a, K(v, w)) : k \in {"And", "Xor", "IMul"}, v \in {1, -1, 2^(w - 1)}}
     \cup {LowBin("Sub", B(w), a), LowBin("Add", a, K(1, w)), LowBin("Sub", K(0, w), a),
           LowUn("Neg", a), LowUn("Not", a)}
Chained == {<<s>> : s \in UNION {Steps(t) : t \in UNION {Steps(A(w)) : w \in Widths}}}
Combined ==
  LET w == IntW
      masked(v) == LowBin("And", v, K(3, w))
      times(v, n) == LowBin("Mul", v, K(n, w))
  IN {<<LowBin("Or", masked(A(w)), masked(B(w)))>>,
      <<LowBin("Or", masked(A(w)), LowBin("And", K(1, w), B(w)))>>,
      <<LowBin("Or", LowBin("And", B(w), A(w)), LowBin("And", A(w), B(w)))>>,
      <<LowBin("Add", times(A(w), 3), times(B(w), 3))>>,
      <<LowBin("Add", times(A(w), 3), times(B(w), -1))>>,
      <<LowBin("Sub", A(w), LowBin("Sub", B(w), K(3, w)))>>,
      <<LowBin("Sub", K(3, w), LowBin("Sub", A(w), A(w)))>>,
      <<LowBin("Add", K(3, w), K(1, w))>>, <<LowBin("Add", K(3, w), LowBin("Add", K(1, w), A(w)))>>}

\* nests a rule goes through level by level: a shift over masks, sums of
\* products, and differences
Nested(n, Outer(_)) == FoldLeft(LAMBDA a, i : Outer(a), A(IntW), [i \in 1 .. n |-> i])
Deep ==
  LET sum(a) == LowBin("Add", LowBin("Mul", a, K(3, IntW)), LowBin("Mul", B(IntW), K(3, IntW)))
      minus(a) == LowBin("Sub", B(IntW), a)
      masked(a) == LowBin("And", a, K(7, IntW))
  IN {<<LowBin(k, Nested(n, masked), K(1, IntW))>> : k \in {"Shr", "Sar"}, n \in {3, 5}}
     \cup {<<LowBin("Shl", Nested(n, sum), K(1, IntW))>> : n \in {2, 4}}
     \cup {<<Nested(n, minus)>> : n \in {3, 4}}

\* instructions that change nothing, or always leave the same
Idle(a) ==
  {LowBin(k, a, ArithConst(v, a.w)) : k \in DOMAIN LowKind, v \in {0, 1, -1}}
  \cup {LowBin("Xor", a, a), LowUn("Neg", LowUn("Neg", a)), MovX("SignExtend", a.w, a),
         LowUn("Neg", LowUn("Neg", LowUn("Neg", a)))}
Neat ==
  UNION {{<<p>>, <<LowBin("Sub", B(p.w), p)>>} : p \in UNION {Idle(A(w)) : w \in Widths}}
  \cup UNION {{<<Flag(f, p)>>, <<p, Flag(f, p)>>, <<CMov(Flag(f, p), A(p.w), B(p.w)), p>>} :
                 f \in {"zero", "sign"},
                 p \in {q \in Idle(A(IntW)) \cup Idle(LowBin("Add", A(LongW), ArithConst(0, LongW))) :
                          q.op # "movx"}}

\* changes of width, addresses, and the other dialects
Mixed ==
  {<<MovX(k, w, a)>> : k \in {"ZeroExtend", "SignExtend"},
                       a \in {A(NarrowW), LowUn("Not", A(NarrowW))}, w \in {IntW, LongW}}
  \cup {<<LowBin("Add", B(LongW), MovX(k, LongW, A(IntW)))>> : k \in {"ZeroExtend", "SignExtend"}}
  \cup {<<LowBin(k, A(LongW), B(w))>> : k \in {"Add", "And"}, w \in {NarrowW, IntW}}
  \cup {<<Flag("carry", LowCmp(A(IntW), B(NarrowW)))>>}
  \cup {<<Lea(A(LongW), B(LongW), K(s, LongW), K(d, LongW))>> : s \in {1, 4}, d \in {0, -3}}
  \cup {<<Llvm(k, LongW, <<A(w)>>)>> : k \in {"zext", "sext"}, w \in {NarrowW, IntW}}
  \cup {<<Llvm("trunc", NarrowW, <<A(w)>>)>> : w \in {IntW, LongW}}
  \cup {<<Llvm(k, A(w).w, <<A(w), B(w)>>)>> : k \in {"add", "and", "udiv", "sdiv", "urem", "srem"},
                                              w \in {NarrowW, LongW}}
  \cup {<<Llvm(k, 1, <<A(w), B(w)>>)>> : k \in {"eq", "slt", "ult", "sge", "uge"}, w \in {NarrowW, LongW}}
  \cup {<<Arith(k, A(w).w, <<A(w), B(w)>>)>> : k \in {"add", "udiv", "srem"}, w \in {IntW}}
  \cup {<<LowBin("And", LowBin(k, A(IntW), K(2, IntW)), K(3, IntW))>> : k \in {"Rol", "Ror"}}

\* what only the LLVM dialect has: addresses, floats, lanes, intrinsics
P == Marked(Read("p", LongW, 1), {"pointer"})
F(name, w) == Marked(Read(name, w, 1), {"float"})
IntToPtr(a) == Llvm("inttoptr", LongW, <<a>>)
Number(a, w) == Llvm("ptrtoint", w, <<a>>)
Addressed ==
  {Gep(size, base, i) : size \in {1, 4}, base \in {P, IntToPtr(A(LongW)), IntToPtr(A(IntW))},
                        i \in {K(0, LongW), K(3, LongW), B(LongW), B(IntW)}}
  \cup {Marked(Gep(4, IntToPtr(A(LongW)), K(1, LongW)), {"aggregate"})}
Peculiar ==
  {<<Number(a, w)>> : a \in Addressed, w \in {IntW, LongW}}
  \cup {<<Llvm(k, LongW, <<Number(P, LongW), a>>)>> : k \in {"add", "sub"}, a \in {B(LongW), K(3, LongW)}}
  \cup {<<Llvm(k, LongW, <<P, a>>)>> : k \in {"add", "sub"}, a \in {B(LongW), K(3, LongW)}}
  \cup {<<LowBin("Add", P, B(LongW))>>, <<Llvm("ult", 1, <<P, B(LongW)>>)>>}
  \cup {<<Llvm("freeze", w, <<A(w)>>)>> : w \in Widths}
  \cup {<<Llvm("bitcast", w, <<A(w)>>)>> : w \in {NarrowW, LongW}}
  \cup {<<Llvm("select", w, <<Llvm("slt", 1, <<A(w), B(w)>>), B(w), A(w)>>)>> : w \in {NarrowW, LongW}}
  \cup {<<Llvm(k, w, <<F("f", w), F("g", w)>>)>> : k \in DOMAIN FloatKind, w \in {IntW, LongW}}
  \cup {<<Llvm(k, 1, <<F("f", IntW), F("g", IntW)>>)>> :
           k \in DOMAIN Ordered \cup DOMAIN Unordered \cup {"ord", "uno"}}
  \cup {<<Arith(k, LongW, <<Arith(c, 1, <<A(IntW), B(IntW)>>)>>)>> : k \in {"extui"}, c \in {"eq", "slt"}}
  \cup {<<Arith(k, NarrowW, <<A(LongW)>>)>> : k \in {"trunci"}}
  \cup {<<Arith("select", IntW, <<Arith("eq", 1, <<A(IntW), B(IntW)>>), A(IntW), K(1, IntW)>>)>>}
  \cup {<<Llvm("fneg", IntW, <<F("f", IntW)>>)>>}
  \cup {<<Llvm(k, w, <<a>>)>> : k \in {"sitofp", "uitofp"}, w \in {IntW, LongW},
                               a \in {A(IntW), A(LongW), MovX("ZeroExtend", LongW, A(NarrowW)),
                                       MovX("SignExtend", LongW, A(NarrowW))}}
  \cup {<<Llvm(k, w, <<F("f", v)>>)>> : k \in {"fptosi", "fptoui", "fpext"}, v \in {IntW, LongW}, w \in {LongW}}
  \cup {<<Llvm("fptosi", NarrowW, <<F("f", LongW)>>)>>, <<Llvm("fptoui", IntW, <<F("f", LongW)>>)>>,
         <<Llvm("fptrunc", IntW, <<F("f", LongW)>>)>>}
  \cup {<<Llvm("fptosi", IntW, <<Llvm("fadd", LongW, <<Llvm("sitofp", LongW, <<a>>), F("f", LongW)>>)>>)>> :
           a \in {A(IntW), MovX("SignExtend", LongW, A(IntW))}}
  \cup {<<Lane("extractelement", l, <<v>>)>> : l \in 0 .. 1,
           v \in {A(IntW), Lane("insertelement", 0, <<B(IntW), A(IntW)>>),
                   Lane("insertelement", 1, <<B(IntW), A(IntW)>>), Lane("shufflevector", 0, <<A(IntW)>>),
                   Lane("shufflevector", 1, <<A(IntW)>>)}}
  \cup {<<Llvm(k, w, <<MovX(e, w, a), MovX(e, w, b)>>)>> :
           k \in Extremes, w \in {IntW, LongW}, e \in {"SignExtend", "ZeroExtend"}, a \in {A(NarrowW)}, b \in {B(NarrowW)}}
  \cup {<<Llvm(k, LongW, <<A(LongW), B(LongW)>>)>> : k \in Extremes}
  \cup {<<Llvm(k, w, <<A(w)>>)>> : k \in {"abs", "bswap"}, w \in {IntW, LongW}}

\* multiplications by reciprocals, and what is left when the quotient is
\* multiplied back
Reciprocals ==
  LET w == IntW
      q(m, s) == LowBin("Shr", LowBin("Mul", A(w), K(m, w)), K(s, w))
  IN {<<q(m, s)>> : m \in {3, 5, 7}, s \in {1, 2, 3}}
     \cup {<<LowBin("Sub", A(w), LowBin("Mul", LowBin(k, A(w), d), d))>> :
             k \in {"Div", "IDiv"}, d \in {B(w), K(3, w)}}
     \cup {<<LowBin("Sub", A(w), LowBin("Mul", q(m, s), K(d, w)))>> : m \in {3, 5}, s \in {3}, d \in {2, 3}}

\* loads of one or two addresses, and what may stand between them
Base == Read("base", LongW, 1)
Other == Read("other", LongW, 1)
V(w) == Read("v", w, 1)
At(base, offset) == Llvm("add", LongW, <<base, K(offset, LongW)>>)
\* what is done to memory before the second load
Between(mem) ==
  {mem, Store(mem, Other, V(IntW)), Store(mem, Base, V(IntW)), Store(mem, At(Base, 2), V(NarrowW)),
   LowCall("sub", 5, mem, Other, V(IntW)), LowRep("stos", mem, Other, V(NarrowW), K(3, LongW)),
   Push(mem, V(IntW)), Guarded(mem, Store(mem, Other, V(IntW))), LlvmStore(mem, Other, V(IntW))}
Twice(w, addr) ==
  LET first == Load(w, Memory, addr)
      again(mem) == Load(w, mem, addr)
      item(mem) == IF mem = Memory THEN <<>> ELSE <<mem>>
  IN {<<first>> \o item(mem) \o <<again(mem), LowBin("Sub", K(3, w), again(mem))>> : mem \in Between(Memory)}
     \cup {<<first>> \o item(mem) \o <<LowBin("Sub", K(3, w), first)>> : mem \in Between(Memory)}
Accessed ==
  {<<Load(w, Memory, Base), Load(v, Memory, Other)>> : w \in Widths, v \in {IntW}}
  \cup {<<Load(w, Memory, a)>> : w \in Widths, a \in {Base, At(Base, 2), At(Base, -2),
                                               At(K(3, LongW), 2), Llvm("add", LongW, <<K(2, LongW), Base>>),
                                               At(At(Base, 1), 2), Gep(4, P, B(LongW))}}
  \cup {<<Flag("zero", LowCmp(Load(w, Memory, a), B(w)))>> : w \in {IntW, LongW}, a \in {Base, At(Base, 2)}}
  \cup {<<Store(Memory, a, LowUn("Not", V(w)))>> : w \in Widths, a \in {Base, At(Base, 2), At(P, 2)}}
  \cup {<<Store(Memory, Base, MovX("SignExtend", IntW, V(NarrowW)))>>}
  \cup UNION {{<<s, Load(IntW, s, a), LowBin("Add", Load(IntW, s, a), K(1, IntW))>> : a \in {Base, Other}} :
                 s \in {Store(Memory, Base, V(IntW)), Store(Memory, Base, V(NarrowW))}}
  \cup {<<LowCall(k, n, Memory, t, V(IntW))>> : k \in {"sub"}, n \in {0, 5},
          t \in {K(3, LongW), ArithConst(3, LongW), Other, At(Other, 2), At(Other, -2), Lea(Other, B(LongW), K(4, LongW), K(2, LongW))}}
  \cup {<<LowRep(k, Memory, Other, V(LongW), K(3, LongW))>> : k \in {"movs", "stos"}}
Remembering == UNION {Twice(w, a) : w \in {IntW, LongW}, a \in {Base, At(Base, 2)}}
  \cup Accessed

MCPrograms == WithFlags \cup Conditional \cup Chained \cup Combined \cup Deep \cup Neat \cup Mixed
                \cup Peculiar \cup Reciprocals \cup Remembering
=============================================================================
