--------------------------- MODULE MCCAstOptimizer ---------------------------
(***************************************************************************)
(* The functions the optimizer is run on: every choice of the pieces below *)
(* in one of the frames, each frame one of the shapes the passes are       *)
(* written for; and the operations the builder makes functions of.         *)
(***************************************************************************)
EXTENDS CAstOptimizer

p == Var("param_1")
q == Var("param_2")
x == Var("rax")
y == Var("rbx")
r1 == Var("scf_r1")
r2 == Var("scf_r2")
r3 == Var("scf_r3")
f == Call("f", <<>>, 1)
g == Call("g", <<>>, 3)
Use(e) == Do(Call("use", <<e>>, 0))

Declaring(locals, body) ==
  [params |-> <<"param_1", "param_2">>, locals |-> locals, zero |-> {},
   synthesized |-> {}, protected |-> {}, body |-> body, defects |-> {},
   outOfTableCalls |-> 0, droppedDanglingGoto |-> FALSE, confidenceScore |-> 10000,
   source |-> [high |-> TRUE, returns |-> TRUE, entry |-> 0, starts |-> {},
              convention |-> "win64", void |-> FALSE, pilot |-> FALSE, frame |-> 0]]
Function(body) == Declaring(<<"rax", "scf_r1", "scf_r2", "scf_r3">>, body)

\* --- selectors: an if decides, the rest asks what was decided
Decisions ==
  { <<Assign(r1, Num(0))>>, <<Assign(r1, Num(1))>>,
    <<Assign(x, f), Assign(r1, Num(1))>>,
    <<Assign(r2, Num(1)), Assign(r1, r2)>>,
    <<Assign(r2, f), Assign(r1, r2), Use(r2)>>,
    <<If(q, <<Assign(x, Num(3)), Assign(r1, Num(1))>>, <<Assign(r1, Num(0))>>)>> }
Between ==
  { <<>>, <<Assign(r2, r1)>>, <<Assign(r3, r1), Assign(r1, Num(0))>>,
    <<Use(r2), Assign(r2, r1)>> }
Questions ==
  { <<If(Not(r1), <<Assign(x, Num(5))>>, <<>>), Return(x)>>,
    <<Switch(r1, <<<<Use(Num(1)), Break>>, <<Use(Num(2)), Break>>, <<Use(r2)>>>>), Return(r3)>>,
    <<If(r1, <<Return(r2)>>, <<>>), Return(r3)>>,
    <<While(r1, <<Assign(r1, Num(0)), Use(r2), Assign(r2, r1)>>), Return(r2)>>,
    <<DoWhile(<<Assign(r3, r2), Assign(r2, Num(0))>>, r2), Return(r3)>> }
SelectorFunctions ==
  {Function(<<If(p, a, b)>> \o m \o t) :
     a \in Decisions, b \in Decisions, m \in Between, t \in Questions}

\* --- stores, copies and reads around one branch, loop or switch
Stores(call) ==
  { <<>>, <<Assign(x, Num(1))>>, <<Assign(x, call)>>, <<Assign(y, x)>>,
    <<Assign(x, Bin("+", y, Num(1)))>>, <<Assign(y, p), Assign(x, y)>> }
Inner ==
  { <<Use(x)>>, <<Assign(x, q)>>, <<Assign(y, x), Assign(x, Num(2))>>,
    <<Compound("+", x, Num(1))>>, <<Assign(x, Bin("+", x, y))>>,
    <<Assign(Deref(p), x)>> }
Regions ==
  {If(q, a, b) : a \in Inner, b \in Inner \cup {<<>>}} \cup
  {While(Bin("<", x, Num(2)), a) :
     a \in {<<Use(y), Assign(x, Bin("+", x, Num(1)))>>,
           <<Assign(y, x), Use(y), Compound("+", x, Num(1))>>}} \cup
  {Switch(q, <<<<Use(x), Break>>, <<Use(y)>>, <<Return(Num(0))>>>>)}
Ends == { <<Return(x)>>, <<Return(y)>>, <<Use(y), Return(x)>>,
          <<Assign(x, Bin("-", x, y)), Return(x)>> }
DataFunctions ==
  {Function(a \o b \o <<r>> \o t) :
     a \in Stores(f), b \in Stores(g), r \in Regions, t \in Ends}

\* --- jumps, returns, loops that run once and conditions in odd shapes
z == Var("rcx")
w == Var("scf_w1")
Pieces ==
  { <<>>,
    <<If(p, <<Goto("done")>>, <<>>), Use(Num(1))>>,
    <<If(q, <<Goto("gone")>>, <<>>)>>,
    <<If(q, <<Use(Num(2)), Return(Num(3))>>, <<Return(p)>>), Return(p)>>,
    <<If(Num(1), <<Use(p)>>, <<Return(q)>>)>>,
    <<While(Num(7), <<If(p, <<Return(q)>>, <<>>), Assign(p, Num(1))>>)>>,
    <<DoWhile(<<Use(p), Break>>, q)>>,
    <<DoWhile(<<Use(p), Assign(w, Num(0))>>, w)>>,
    <<If(Bin("!=", Not(p), Num(0)), <<>>, <<Use(q)>>)>>,
    <<If(Bin("&", Bin("<", p, q), Bin("==", q, Num(1))), <<Use(p)>>, <<>>)>>,
    <<Assign(Deref(CastTo(8, Num(0))), q)>>,
    <<Assign(Deref(z), q)>>,
    <<If(p, <<Assign(r1, Num(1))>>,
            <<If(q, <<Assign(r1, Num(1))>>, <<Assign(r1, Num(2))>>)>>),
      Use(r1)>>,
    <<Assign(q, Bin("-", q, Bin("-", q, p)))>>,
    <<Compound("-", q, Bin("-", q, p))>>,
    <<Assign(y, p), If(Bin("<", q, p), <<Assign(y, q)>>, <<>>), Use(y)>> }
Exits == { <<Label("done"), Return(q)>>, <<Label("done"), Assign(x, q), Return(x)>>,
           <<Return(q), Label("done"), Use(Num(4)), Return(p)>>,
           <<Return(p), Assign(q, Num(1))>>,
           <<Label("done"), Return(p), Assign(Deref(q), Num(1))>> }
ControlFunctions ==
  {Function(a \o b \o t) : a \in Pieces, b \in Pieces, t \in Exits}

\* --- three variables, whatever they are called and whichever are declared
Named == {Var(n) : n \in {"rax", "rbx", "v1", "v2", "param_1_2"}}
NameFunctions ==
  {Declaring(locals,
     <<Assign(a, f), Assign(b, Bin("+", a, p)),
       If(q, <<Assign(c, g), Use(a)>>, <<Use(c)>>),
       Use(b), Return(Bin("+", b, c))>>) :
     a \in Named, b \in Named, c \in Named,
     locals \in {<<>>, <<"rax", "v2">>, <<"param_1_2", "rbx">>}}

\* --- what a loop computes for the code after it
k == Var("local_8")
Again == Bin("==", p, Num(1))
DeadStoreFunctions ==
  {Declaring(<<"local_8">>, <<Assign(k, Num(0)), loop, Return(k)>>) :
     loop \in {While(Again, <<Assign(k, q), Assign(p, Num(0))>>),
               DoWhile(<<Assign(k, q), Assign(p, Num(0))>>, Again),
               Switch(p, <<<<Assign(k, q), Break>>, <<Break>>>>)}}

\* --- what a machine and a compiler leave in the tree
rbp == Var("rbp")
rsp == Var("rsp")
canary == Call("__readgsqword", <<Num(40)>>, 0)
kept == Var("local_20")
Fails == <<Do(Call("__stack_chk_fail", <<>>, 0)), Assign(x, Num(0))>>
Openings ==
  { <<>>,
    <<Assign(rbp, rsp), Assign(rsp, Bin("-", rsp, Num(32)))>>,
    <<Assign(Var("_promoted_1"), p), Assign(Var("__flags"), Call("__carry", <<p>>, 0)),
      Do(Call("__helix_post_call_f", <<>>, 0))>> }
\* how the canary is saved, and the statements that check it
Canaries ==
  { <<<<>>, <<>>>> } \cup
  { <<save, check>> :
      save \in {<<Assign(kept, canary)>>,
               <<Assign(y, Var("__security_cookie")), Assign(kept, y), Assign(y, p)>>},
      check \in {<<If(Bin("!=", kept, canary), Fails, <<>>)>>,
                <<If(Not(Bin("-", kept, canary)), <<Use(Num(1))>>, Fails)>>,
                <<Assign(z, kept), Assign(z, Bin("-", z, canary)),
                  If(q, Fails, <<Use(y)>>)>>,
                <<Use(kept)>>,
                <<If(Bin("-", kept, canary), Fails, <<>>), Use(kept)>>} } \cup
  { <<<<Assign(kept, Bin("+", Deref(CastTo(8, Num(0))), Num(40)))>>,
      <<If(Bin("==", kept, Num(0)), Fails, <<>>),
        Do(Call("__security_check_cookie", <<q>>, 0))>>>> }
h == Call("h", <<p>>, 9)
ymm == Var("ymm0")
low == Typed(8, "local_10")
Work ==
  { <<Assign(x, Call("ADCmem", <<p, Call("DoBSWAP", <<q>>, 5)>>, 6)), Use(x),
      Do(Call("DoREP_MOVSB", <<p>>, 7)), Do(Call("ADDPS", <<q>>, 8))>>,
    <<Use(Bin("^", Bin("<", p, q), Num(1))), Use(Bin("^", Num(LowOnes), p)),
      Use(Bin("^", q, Num(1))), Use(Bin("^", p, Num(-1)))>>,
    <<Assign(Deref(Bin("+", p, Num(8))), q), Use(Deref(Bin("+", Num(8), p)))>>,
    <<Assign(low, CastTo(8, Bin("-", p, Num(1)))),
      Use(CastTo(8, low)), Use(CastTo(16, CastTo(4, CastTo(4, q))))>>,
    <<Assign(ymm, CastTo(8, Num(0))), Use(ymm), Assign(ymm, Var("block_arg0")), Use(ymm)>>,
    <<Use(Bin("-", rbp, Num(8))), Use(Bin("+", rbp, Num(8)))>>,
    <<Do(h), Assign(y, h), Use(y)>>,
    <<Do(f), Do(f), Assign(x, f), Assign(y, g), Use(Bin("-", x, y))>> }
IdiomFunctions ==
  {Declaring(<<"rax", "rbx", "rbp", "local_20", "local_10", "_promoted_1", "var_8">>,
             o \o c[1] \o a \o b \o c[2] \o <<Return(x)>>) :
     o \in Openings, c \in Canaries, a \in Work, b \in Work}

\* --- what the score is to notice: locals that nothing assigns, or not always
u == Var("local_1")
n0 == Var("local_2")
Givings ==
  { <<>>, <<Assign(u, f)>>, <<If(p, <<Assign(u, f)>>, <<>>)>>,
    <<If(p, <<Assign(u, f)>>, <<Assign(u, q)>>)>>,
    <<If(p, <<Return(Num(0))>>, <<Assign(u, f)>>)>>,
    <<While(Again, <<Assign(u, f), Assign(p, Num(0)), Use(Bin("+", u, p))>>)>>,
    <<DoWhile(<<Assign(u, f), Assign(p, Num(0)), Use(Bin("+", u, p))>>, Again)>>,
    <<DoWhile(<<If(q, <<Return(u)>>, <<>>), Assign(p, Num(0)), Use(p)>>, Again)>>,
    <<If(Not(n0), <<Assign(u, f)>>, <<Use(Num(1))>>)>>,
    <<If(n0, <<Assign(u, f)>>, <<Use(Num(1))>>)>>,
    <<Compound("+", u, q)>>,
    <<Switch(p, <<<<Assign(u, f), Break>>, <<Use(Num(1))>>>>)>>,
    <<If(p, <<Goto("done")>>, <<>>), Assign(u, q), Label("done")>>,
    <<Use(AddressOf(u))>> }
Usings ==
  { <<>>, <<Use(u)>>, <<If(q, <<Use(u)>>, <<>>)>>, <<Use(Deref(n0))>>,
    <<If(q, <<Assign(Deref(Bin("+", n0, Num(8))), p)>>, <<>>)>>,
    <<Use(AddressLeak(4096))>>, <<Compound("-", q, Bin("-", q, p))>>,
    <<Use(Bin("<<", Typed(32, "local_3"), Num(33)))>>,
    <<Do(Call("__helix_unhandled_f", <<p>>, 0))>>,
    <<Assign(Var("ptr"), Bin("*", Var("ptr"), Num(2))), Use(Var("ptr"))>>,
    <<If(q, <<Goto("loc_irr_1")>>, <<>>)>>, <<Use(Var("orphan"))>> }
Lasts == { <<Return(u)>>, <<Return(CastTo(8, u))>>, <<Return(Bin("+", u, Num(1)))>>,
           <<ReturnVoid>>, <<>> }
ScoreFunctions ==
  {[Declaring(<<"local_1", "local_2", "local_3", "ptr">>, a \o b \o t) EXCEPT
      !.zero = {"local_2"}] : a \in Givings, b \in Usings, t \in Lasts} \cup
  {[Declaring(<<"local_1">>, <<Assign(u, f), Return(u)>>) EXCEPT
      !.defects = d, !.outOfTableCalls = calls] :
     d \in SUBSET {"registryMissHonestFailure", "incompleteAbiCalls"}, calls \in {0, 2, 6}}

-----------------------------------------------------------------------------
(***************************************************************************)
(* The functions the builder is run on, the same way.  What it is known to *)
(* get wrong stays out: values read from a variable that changed since,    *)
(* copies of a branch followed behind it, calls with several users.        *)
(***************************************************************************)
Ssa(id)           == Expr("ssa", id, 0, <<>>)
Op(kind, n, args) == Expr(kind, n, 0, args)
Def(id, e)        == Stmt("def", id, <<e>>, <<>>)
Fixed(id, e)      == Stmt("fixed", id, <<e>>, <<>>)
Calls(id, c)      == Stmt("call", id, <<c>>, <<>>)
LowCalls(id, c)   == Stmt("lowcall", id, <<c>>, <<>>)
LlvmCalls(id, c)  == Stmt("llvmcall", id, <<c>>, <<>>)
Uses1(e)          == Calls("", Call("use", <<e>>, 0))
Yield(es)         == Stmt("yield", "", es, <<>>)
RegWrite(r, e)    == Stmt("regwrite", r, <<e>>, <<>>)
StoreTo(a, e)     == Stmt("store", "", <<a, e>>, <<>>)
LowReturn         == Stmt("lowret", "", <<x>>, <<>>)
Block(l, args, ops) == Stmt("block", l, args, <<ops>>)
Br(l, es)         == Stmt("br", l, es, <<>>)
CondBr(c, a, b)   == Stmt("condbr", "", <<c>>, <<<<a>>, <<b>>>>)
CfSwitch(e, brs)  == Stmt("cfswitch", "", <<e>>, [i \in DOMAIN brs |-> <<brs[i]>>])
ScfIf(c, ids, a, b) == Stmt("scfif", "", <<c>> \o ids, <<a, b>>)
ScfSwitch(e, ids, arms) == Stmt("scfswitch", "", <<e>> \o ids, arms)
Infra(e)          == Stmt("infra", "", <<e>>, <<>>)
State             == Expr("state", "", 0, <<>>)
v1 == Var("v1")
v2 == Var("v2")

Lowered(source, body) ==
  [Declaring(<<"rax", "rbx", "v1", "v2", "result">>, body) EXCEPT
     !.source = source, !.confidenceScore = 0]
AtHome == [high |-> TRUE, returns |-> TRUE, entry |-> 0, starts |-> {},
           convention |-> "win64", void |-> FALSE, pilot |-> FALSE, frame |-> 0]

\* --- copies, values that are kept, calls and stores of a block
Openers ==
  { <<Assign(v1, q), Assign(y, v1)>>,
    <<Assign(v1, x), Assign(v2, v1), Assign(x, v2), Uses1(v2)>>,
    <<Assign(x, Num(1)), Assign(x, q)>>,
    <<Assign(x, Bin("+", x, Num(1))), Assign(y, Bin("-", q, y))>>,
    <<Assign(y, Bin("+", p, y)), Assign(x, Bin("-", x, Num(1)))>>,
    <<Fixed("%1", Bin("+", p, q)), Assign(x, Ssa("%1")), Assign(p, Num(0)), Uses1(Ssa("%1"))>>,
    <<Def("%1", Bin("+", x, y)), Assign(x, Ssa("%1"))>>,
    <<Calls("%1", f), Assign(x, Ssa("%1"))>>,
    <<Calls("%1", f), Def("%2", CastTo(8, Ssa("%1"))), Assign(y, Ssa("%2"))>> }
Effects ==
  { <<LowCalls("%3", g), RegWrite("RAX", Ssa("%3"))>>,
    <<LowCalls("", g), RegWrite("ZF", Num(1)), RegWrite("RBX", Expr("undef", "", 0, <<>>))>>,
    <<LlvmCalls("", Call("h", <<State, p>>, 9)), LlvmCalls("", Call("__remill_read", <<p>>, 0))>>,
    <<Assign(v1, x), LowCalls("", Call("use", <<q>>, 5)), Uses1(v1), Assign(v1, q), Uses1(v1)>>,
    <<StoreTo(p, q), StoreTo(Bin("+", p, Num(8)), x)>>,
    <<Assign(rbp, rsp), Infra(x), Stmt("xchg", "", <<x, y>>, <<>>)>>,
    <<Calls("%4", Call("nothing", <<p>>, 6)), Assign(x, Ssa("%4")), Assign(x, q)>>,
    <<Calls("%7", Call("__vtable_0x8", <<p, q>>, 7)), Assign(x, Ssa("%7"))>>,
    <<Stmt("trap", "", <<>>, <<>>), Stmt("rep", "memcpy", <<p, q, Num(3)>>, <<>>)>>,
    <<Stmt("unhandled", "op", <<q>>, <<>>)>> }
Merges ==
  { <<ScfIf(p, <<Ssa("%5")>>, <<Assign(v1, q), Assign(x, v1), Yield(<<x>>)>>,
            <<Calls("%6", f), Assign(y, Ssa("%6")), Yield(<<Num(2)>>)>>), Assign(y, Ssa("%5"))>>,
    <<ScfIf(q, <<Ssa("%5"), Ssa("%6")>>, <<Yield(<<x, y>>)>>, <<Yield(<<y, x>>)>>),
      Uses1(Ssa("%6")), Uses1(Ssa("%5"))>>,
    <<ScfSwitch(q, <<Ssa("%5")>>,
                <<<<Yield(<<Num(4)>>)>>, <<Uses1(x), Yield(<<x>>)>>, <<Yield(<<y>>)>>>>),
      Assign(x, Ssa("%5"))>>,
    <<ScfIf(q, <<>>, <<Block("l1", <<>>, <<Br("l2", <<>>)>>), Block("l2", <<>>, <<Uses1(x)>>)>>, <<>>)>>,
    <<If(q, <<Assign(v1, p), Uses1(v1)>>, <<Assign(x, p)>>), Uses1(y)>>,
    <<While(Bin("<", x, Num(1)), <<Assign(x, Bin("+", x, Num(1))), Uses1(y)>>)>>,
    <<DoWhile(<<Assign(x, Bin("+", x, Num(1))), Uses1(x)>>, Bin("<", x, Num(1)))>>,
    <<Switch(q, <<<<Assign(y, Bin("+", y, p)), Break>>, <<Uses1(y)>>, <<Return(x)>>>>)>> }
Leaves == { <<Return(Bin("-", x, y))>>, <<Uses1(y), LowReturn>> }
BlockFunctions ==
  {Lowered(AtHome, <<Assign(x, Num(5)), Assign(y, p)>> \o a \o b \o m \o t) :
     a \in Openers, b \in Effects, m \in Merges, t \in Leaves}

\* --- jumps between the blocks that stayed
i1 == Ssa("%a")
i2 == Ssa("%b")
Flows ==
  { <<Block("l0", <<>>, <<Br("l1", <<Num(0), p>>)>>),
      Block("l1", <<i1, i2>>,
            <<Uses1(i1), CondBr(Bin("<", Bin("+", i1, i2), Num(2)),
                                Br("l1", <<Bin("+", i2, Num(1)), i1>>), Br("l2", <<i2>>))>>),
      Block("l2", <<Ssa("%c")>>, <<Return(Ssa("%c"))>>)>>,
    <<Block("l0", <<>>, <<Assign(x, p), CfSwitch(q, <<Br("l1", <<>>), Br("l3", <<>>)>>)>>),
      Block("l1", <<>>, <<Label("l1"), Uses1(p), Br("l2", <<Num(7)>>)>>),
      Block("l2", <<i1>>, <<Uses1(i1), Return(x)>>),
      Block("l3", <<>>, <<Uses1(q), Return(Num(9))>>),
      Block("l4", <<>>, <<Label("l4"), Return(p)>>)>>,
    <<Assign(x, p), If(q, <<Goto("out")>>, <<>>), Assign(x, Num(3)), Label("out"), Return(x)>>,
    <<If(q, <<Goto("out")>>, <<>>), Uses1(p), Label("out"), Assign(x, q), LowReturn>>,
    <<While(Again, <<Assign(p, Num(0)), If(q, <<Goto("out")>>, <<>>), Uses1(p)>>),
      Label("out"), Uses1(p), ReturnVoid>> }
FlowFunctions ==
  {Lowered([AtHome EXCEPT !.returns = ReturnVoid \notin ToSet(Flat(body))], body) : body \in Flows}

\* --- what the lower tiers compute with, and the addresses among it
Folded == Expr("int", "code", 16, <<>>)
Computed ==
  { Op("llvm", "+", <<p, q>>), Op("llvm", "-", <<Num(5), Num(2)>>),
    Op("llvm", "+", <<Expr("int", "code", 8, <<>>), Num(8)>>),
    Op("reg", "RCX", <<>>), Op("step", "+", <<p>>), Op("step", "-", <<q>>),
    Expr("lea", "", 8, <<p>>), Expr("lea", "", 0, <<q>>),
    Op("test", "==", <<p, q>>), Op("cmp", "zero", <<p, q>>), Op("cmp", "sign", <<p, q>>),
    Op("machine", "__bswap", <<p>>), Op("opaque", "__helix_post_call_f", <<>>),
    Op("load", "", <<Num(300)>>), Op("load", "", <<Bin("+", p, Num(1))>>),
    Expr("fieldptr", "", 8, <<p>>), Deref(AddressOf(Field(8, Bin("+", p, Num(1))))),
    Deref(Num(300)), Expr("addrlit", "", 310, <<>>), Expr("addrlit", "", 4000, <<>>),
    Num(310), Folded, Num(144), Num(160), Num(200), Expr("unknown", "why", 0, <<>>),
    Op("other", "x", <<p>>), CastTo(8, Op("reg", "RDX", <<>>)) }
Home(starts) == [AtHome EXCEPT !.entry = 128, !.starts = starts]
Labelled == <<If(p, <<Goto("loc_90")>>, <<>>), Calls("", Call("use", <<q>>, 180)),
              Label("loc_90"), Uses1(p), Return(x)>>
AddressFunctions ==
  {Lowered(Home({128, 200}), <<Assign(x, a), Uses1(b)>> \o Labelled) :
     a \in Computed, b \in {Folded, Num(200), Expr("fieldptr", "", 8, <<p>>), Op("reg", "RCX", <<>>)}}
CalleeFunctions ==
  {Lowered([Home(starts) EXCEPT !.high = high],
           <<kind, Calls("%1", Call(c, <<p>>, 150)), Assign(x, Ssa("%1"))>> \o t) :
     kind \in {Calls("", Call("MOVSB", <<q>>, 151)), LowCalls("", Call("sub_d2", <<q>>, 152))},
     c \in {"sub_90", "sub_c8", "sub_d2", "f"}, starts \in {{}, {128, 200}, {200}},
     high \in BOOLEAN, t \in {Labelled, <<Return(x)>>}}
StubFunctions ==
  {Lowered([Home(starts) EXCEPT !.entry = entry, !.returns = ReturnVoid \notin ToSet(body)], body) :
     starts \in {{}, {200}}, entry \in {0, 128, 200},
     body \in {<<>>, <<ReturnVoid>>, <<Return(Num(0))>>, <<Uses1(p), Return(q)>>,
               <<If(p, <<>>, <<Assign(x, q)>>), Return(Num(1))>>}}

-----------------------------------------------------------------------------
(***************************************************************************)
(* The functions whose dead operations are still there.  What the removal  *)
(* is known to get wrong stays out: a variable read only by a jump, a call *)
(* of the lifter's or a string instruction, a register read in a branch,   *)
(* and a dead value that was given by a call of the lifter's.              *)
(***************************************************************************)
Reg(r)        == Expr("reg", r, 0, <<>>)
RegAt(r, at)  == Expr("reg", r, at, <<>>)
Push(r, at)   == Stmt("push", "", <<RegAt(r, at)>>, <<>>)
Pop(id)       == Stmt("pop", id, <<Expr("pop", "", 0, <<>>)>>, <<>>)
\* the lifter took it for a save
Marked(s)     == [s EXCEPT !.x = Append(@, Text("save"))]
InfraValue(id, e) == Stmt("infra", id, <<e>>, <<>>)
Nop           == Stmt("low", "nop", <<>>, <<>>)

\* what a function does first, and what it does last
Frames ==
  { <<<<>>, <<>>>>,
    <<<<Push("RBP", 1), RegWrite("RBP", Reg("RSP")), RegWrite("RSP", Op("bin", "-", <<Reg("RSP"), Num(8)>>))>>,
      <<RegWrite("RSP", Reg("RBP")), Pop("%p"), RegWrite("RBP", Ssa("%p"))>>>>,
    <<<<Push("RBX", 1), Push("RSI", 1), Nop>>,
      <<Pop("%s"), RegWrite("RSI", Ssa("%s")), Pop("%b"), RegWrite("RBX", Ssa("%b"))>>>>,
    <<<<Marked(Push("RBX", 2)), InfraValue("%i", Num(4)), InfraValue("%j", Bin("+", Ssa("%i"), Num(1))),
        Infra(Ssa("%j"))>>, <<Marked(Pop("%m"))>>>>,
    <<<<Def("%t", Op("bin", "-", <<Reg("RSP"), Num(4)>>)), RegWrite("RSP", Ssa("%t")),
        InfraValue("%i", Bin("+", p, q)), Uses1(Ssa("%i"))>>, <<RegWrite("RSP", Reg("RSP"))>>>>,
    <<<<Assign(x, q), Uses1(x)>>, <<RegWrite("RAX", p)>>>> }
\* writes of registers: over before a read, by lanes, by a call, at the return
Writes ==
  { <<>>,
    <<RegWrite("RBX", p), RegWrite("RBX", q), Uses1(Reg("RBX"))>>,
    <<RegWrite("AL", p), RegWrite("AH", q), RegWrite("AL", Num(1)), Uses1(Bin("+", Reg("AL"), Reg("AH")))>>,
    <<RegWrite("AL", p), RegWrite("RAX", q), RegWrite("AH", q), Uses1(Reg("AH"))>>,
    <<RegWrite("RBX", p), RegWrite("R10", p), Uses1(Reg("R10")), RegWrite("R10", q), LowCalls("%g", g),
      RegWrite("RAX", Ssa("%g")), Uses1(Reg("RBX"))>>,
    <<Def("%w", Bin("+", p, Num(1))), RegWrite("R10", Ssa("%w")), RegWrite("R10", Ssa("%w")), Uses1(Reg("R10"))>>,
    <<ScfIf(q, <<>>, <<RegWrite("RBX", Num(1)), RegWrite("RBX", p), Uses1(Reg("RBX"))>>, <<RegWrite("RBX", q)>>),
      Uses1(p)>> }
\* values and variables, some of them without a reader
Values ==
  { <<>>,
    <<Def("%1", Op("cmp", "zero", <<p, q>>)), Def("%2", Op("test", "==", <<p, q>>)),
      Def("%3", Op("cmp", "sign", <<p, q>>)), If(Ssa("%3"), <<Uses1(q)>>, <<>>)>>,
    <<Def("%1", Op("lea", "", <<p>>)), Def("%2", CastTo(8, Ssa("%1"))), Def("%3", Bin("+", p, q))>>,
    <<Assign(v1, p), Assign(v2, Bin("+", v1, Num(1))), Assign(v1, v2)>>,
    <<Assign(v1, p), Assign(v2, Bin("+", v1, Num(1))), Uses1(v2)>>,
    <<Assign(v1, Var("__undef")), Assign(ymm, p), Assign(v2, q), If(v2, <<Assign(v1, p), Uses1(v1)>>, <<>>)>>,
    <<Assign(y, Num(0)), While(Bin("<", y, Num(2)), <<Assign(y, Bin("+", y, Num(1))), Uses1(y)>>)>>,
    <<Def("%1", CastTo(8, p)), Assign(v1, Ssa("%1")), Calls("%2", f), Assign(v2, Ssa("%2"))>>,
    <<Assign(Var("result"), p), Def("%1", Bin("-", q, p)), Assign(Var("result"), Ssa("%1"))>> }
\* what a return gives back that does not say so
Returned(body) == IF "result" \in NamesIn(body) THEN Var("result") ELSE x
Finish(body, end) ==
  LET whole == CASE end = "machine" -> body \o <<Assign(Returned(body), Bin("+", Returned(body), p)),
                                                 Stmt("lowret", "", <<Returned(body)>>, <<>>)>>
                 [] end = "value"   -> body \o <<Assign(x, Num(3)), Return(Bin("+", x, q))>>
                 [] end = "nothing" -> Append(body, ReturnVoid)
      locals == SelectSeq(<<"rbx", "rax", "v1", "v2", "ymm0", "result">>,
                          LAMBDA n : n # "result" \/ n \in NamesIn(body))
  IN [Declaring(locals, whole) EXCEPT !.confidenceScore = 0, !.source.returns = end # "nothing"]
MachineFunctions ==
  {Finish(fr[1] \o a \o b \o fr[2], end) :
     fr \in Frames, a \in Writes, b \in Values, end \in {"machine", "value", "nothing"}}

\* a return of another convention, and slots of the frame that become values
Promotable ==
  { <<Assign(k, p), Uses1(k), Assign(k, Num(7)), Uses1(Bin("+", k, q)), Return(k)>>,
    <<Assign(k, p), If(q, <<Uses1(k)>>, <<>>), Return(k)>>,
    <<Assign(k, p), Uses1(AddressOf(k)), Return(k)>>,
    <<Uses1(q), Calls("%1", f), Assign(k, Ssa("%1")), Return(k)>>,
    <<Assign(k, Num(0)), While(Bin("<", k, Num(2)), <<Uses1(q), Assign(k, Bin("+", k, Num(1)))>>), Return(p)>> }
ConventionFunctions ==
  {[Declaring(<<"rax", "local_8">>, body) EXCEPT !.source.convention = convention, !.source.pilot = pilot] :
     body \in Promotable, convention \in {"win64", "aapcs64"}, pilot \in BOOLEAN} \cup
  {[Declaring(<<"rax">>, <<Assign(r, Bin("+", p, q)), Uses1(r), Stmt("lowret", "", <<r>>, <<>>)>>) EXCEPT
      !.source.convention = IF r = p THEN "aapcs64" ELSE "sysv"] :
     r \in {p, x}} \cup
  {[Declaring(<<"rax">>, <<Assign(x, Bin("+", p, q)), Uses1(x), Stmt("lowret", "", <<x>>, <<>>)>>) EXCEPT
      !.source.void = TRUE]}

-----------------------------------------------------------------------------
(***************************************************************************)
(* The functions whose frame is still memory.  What the layout is known to *)
(* get wrong stays out: one word reached from two registers or from a      *)
(* register that moved, words that overlap, offsets that differ only in    *)
(* their sign, an argument read from a stack pointer that moved.           *)
(***************************************************************************)
Word(a)     == Op("load", "", <<a>>)
Local(n)    == Expr("local", "", n, <<>>)
OffsetFrom(r, n) == Op("llvm", "+", <<Reg(r), Num(n)>>)
Lower(n)    == <<Def("%t", Op("bin", "-", <<Reg("RSP"), Num(n)>>)), RegWrite("RSP", Ssa("%t"))>>
Raise(n)    == <<RegWrite("RSP", Op("bin", "+", <<Reg("RSP"), Num(n)>>))>>
PopTo(r)    == <<Pop("%" \o r), RegWrite(r, Ssa("%" \o r))>>
\* how a function begins and ends, the places of two locals, and an argument its
\* caller has put on the stack, by convention
Layouts ==
  { [begin |-> <<>>, end |-> <<>>, a |-> OffsetFrom("RSP", -8), b |-> Op("llvm", "-", <<Reg("RSP"), Num(16)>>),
     win64 |-> Word(Op("llvm", "+", <<Num(40), Reg("RSP")>>)), sysv |-> Word(OffsetFrom("RSP", 8))],
    [begin |-> Lower(32), end |-> Raise(32),
     a |-> Op("bin", "+", <<Reg("RSP"), Num(8)>>), b |-> Reg("RSP"), win64 |-> q, sysv |-> q],
    [begin |-> <<Push("RBP", 1), RegWrite("RBP", Reg("RSP"))>> \o Lower(64),
     end |-> <<RegWrite("RSP", Reg("RBP"))>> \o PopTo("RBP"),
     a |-> Op("bin", "-", <<Reg("RBP"), Num(8)>>), b |-> OffsetFrom("RSP", 40),
     win64 |-> Word(Expr("lea", "", 48, <<Reg("RBP")>>)), sysv |-> Word(OffsetFrom("RBP", 16))],
    [begin |-> <<Push("RBP", 1), Push("RBX", 1)>> \o Lower(16)
                 \o <<RegWrite("RBP", Op("llvm", "+", <<Num(8), Reg("RSP")>>))>>,
     end |-> Raise(16) \o PopTo("RBX") \o PopTo("RBP"), a |-> OffsetFrom("RBP", -8), b |-> Local(4),
     win64 |-> Word(OffsetFrom("RBP", 64)), sysv |-> Word(OffsetFrom("RBP", 40))],
    [begin |-> <<>>, end |-> <<>>, a |-> Local(0), b |-> Expr("lea", "", -8, <<Var("rsp")>>),
     win64 |-> Word(OffsetFrom("RSP", 48)), sysv |-> Word(Op("llvm", "-", <<Reg("RSP"), Num(-16)>>))] }
Argument(l, convention) == IF convention = "win64" THEN l.win64 ELSE l.sysv
\* what it does with them
SlotWork(a, b, arg) ==
  { <<StoreTo(a, p), StoreTo(b, q), Uses1(Word(a)), Assign(x, Bin("+", Word(b), Word(a)))>>,
    <<StoreTo(a, arg), LowCalls("", g), StoreTo(a, Bin("+", Word(a), Num(1))),
      Uses1(Bin("+", Word(a), q)), Assign(x, arg)>>,
    <<Def("%n", a), StoreTo(Ssa("%n"), arg), StoreTo(b, p), Assign(x, Word(Ssa("%n"))),
      StoreTo(p, Word(b)), StoreTo(Ssa("%n"), q)>> }
\* the pilot makes a value of a slot, and computes it again where it is used
Overwritten(a, b) ==
  <<StoreTo(a, p), StoreTo(b, Word(a)), StoreTo(a, q), Uses1(Word(b)), Assign(x, Word(a))>>
FramedBodies(l, arg, pilot) ==
  {l.begin \o work \o <<Assign(x, Bin("+", x, Num(1)))>> \o l.end \o <<Stmt("lowret", "", <<x>>, <<>>)>> :
     work \in SlotWork(l.a, l.b, arg) \cup (IF pilot THEN {} ELSE {Overwritten(l.a, l.b)})} \cup
  {<<Block("l0", <<>>, l.begin \o <<StoreTo(l.a, arg), CondBr(q, Br("l1", <<>>), Br("l2", <<>>))>>),
     Block("l1", <<>>, <<StoreTo(l.a, Bin("+", Word(l.a), Num(1))), Br("l2", <<>>)>>),
     Block("l2", <<>>, <<Uses1(Word(l.a)), Assign(x, Word(l.a))>> \o l.end \o <<Return(x)>>)>>}
FramedFunctions(convention) ==
  UNION {{[Declaring(<<"rax">>, body) EXCEPT
             !.confidenceScore = 0, !.source.convention = convention, !.source.frame = 1024,
             !.source.pilot = pilot] :
            body \in FramedBodies(l, Argument(l, convention), pilot)} :
          l \in Layouts, pilot \in BOOLEAN}

MCFramed == FramedFunctions("win64") \cup FramedFunctions("sysv")
MCFrameRegisters == [n \in {"rsp", "rbp"} |-> IF n = "rsp" THEN "RSP" ELSE "RBP"]
MCPassedOnStack == ("param_5" :> 15) @@ ("param_6" :> 16) @@ ("param_7" :> 17) @@ ("param_8" :> 18)
MCStackHome == [c \in {"win64", "sysv", "aapcs64"} |->
                  CASE c = "win64" -> ("param_5" :> 40) @@ ("param_6" :> 48)
                    [] c = "sysv" -> ("param_7" :> 8) @@ ("param_8" :> 16)
                    [] OTHER -> <<>>]
-----------------------------------------------------------------------------
(***************************************************************************)
(* What the printer has to print: every kind of expression inside every    *)
(* other, and statements inside statements.                                *)
(***************************************************************************)
Index(a, b) == Expr("index", "", 0, <<a, b>>)
Ternary(a, b, c) == Expr("ternary", "", 0, <<a, b, c>>)
Signs == {"||", "&&", "|", "^", "&", "==", "!=", "<", ">=", "<<", "+", "-", "*", "%"}
ExprsAround(e) ==
  {Bin(op, e, q) : op \in Signs} \cup {Bin(op, q, e) : op \in Signs}
    \cup {Un(op, e) : op \in {"-", "!", "~", "*", "&"}}
    \cup {CastTo(8, e), Call("f", <<e, q>>, 7), Field(8, e), Index(e, q), Index(q, e),
          Ternary(e, p, q), Ternary(p, e, q), Ternary(p, q, e)}
PrintableExprs ==
  UNION {ExprsAround(e) : e \in UNION {ExprsAround(l) : l \in {p, Num(-5), AddressLeak(5)}}}
    \cup {Deref(Num(4096)), Field(8, Deref(CastTo(16, Num(5000)))), Deref(Num(4095)), Text("text"),
          FloatZero, Call("f", <<>>, 0), Bin("-", Deref(CastTo(16, Num(4096))), Num(-1))}
PrintableLists ==
  {<<>>, <<Compound("++", p, Bin("+", p, Num(1))), Label("l0"), ReturnVoid>>,
   <<Compound("--", Deref(p), Deref(p)), Goto("l1"), Label("l1")>>,
   <<Compound("-", Deref(p), Un("-", q)), Do(f), Break>>,
   <<Assign(Index(p, q), Num(-1)), Compound("++", Field(8, p), p), Continue>>}
Heads == {<<>>, <<Assign(p, Num(0))>>, <<Compound("++", Deref(p), p)>>, <<Compound("<<", q, p)>>, <<Do(f)>>}
StmtsAround(a, b) ==
  {If(p, a, b), While(Num(-1), a), While(Bin("<", p, q), a), DoWhile(a, Num(1)), While(Num(0), a),
   DoWhile(a, Deref(p)), Switch(p, <<a, b, a>>), Stmt("block", "", <<>>, <<a>>)}
PrintableBodies ==
  {<<Return(e)>> : e \in PrintableExprs} \cup
  UNION {{<<s, ReturnVoid>>, <<If(q, <<s>>, b)>>} :
           b \in PrintableLists,
           s \in UNION {StmtsAround(a, d) : a \in PrintableLists, d \in PrintableLists}} \cup
  {<<Stmt("for", "", c, <<a, b, <<Do(f)>>>>)>> :
     a \in Heads, b \in Heads, c \in {<<>>, <<Num(-1)>>, <<Bin("<", p, q)>>}}
MCPrintable == {Declaring(<<"local_1">>, body) : body \in PrintableBodies}
                 \cup {[Declaring(<<>>, <<ReturnVoid>>) EXCEPT !.params = <<>>]}

MCLifted == MachineFunctions \cup ConventionFunctions
MCLane == [r \in {"RAX", "EAX", "AL", "AH", "RBX", "RBP", "RSP", "RSI", "R10"} |->
             [of |-> IF r \in {"EAX", "AL", "AH"} THEN "RAX" ELSE r,
              bits |-> CASE r = "AL" -> {0} [] r = "AH" -> {1} [] r = "EAX" -> 0 .. 3 [] OTHER -> 0 .. 7]]

MCInputs  == {<<a, b>> : a \in 0 .. 1, b \in 0 .. 1}
MCAnswers == {<<>>, <<1, 0>>, <<2, 1>>}
MCFunctions ==
  SelectorFunctions \cup DataFunctions \cup ControlFunctions \cup NameFunctions
    \cup IdiomFunctions \cup ScoreFunctions
MCOperations == BlockFunctions \cup FlowFunctions \cup AddressFunctions
                  \cup CalleeFunctions \cup StubFunctions
NoOperations == {}
MCCalleeAt == [n \in {"sub_90", "sub_c8", "sub_d2"} |->
                 CASE n = "sub_90" -> 144 [] n = "sub_c8" -> 200 [] OTHER -> 210]
MCIndirect == [n \in DOMAIN MCCalleeAt |-> "(*(void (*)())" \o n \o ")"]
MCVirtual == [n \in {"__vtable_0x8"} |-> "vfunc_0x8"]
MCCodeLabels == [n \in {"loc_90"} |-> 144]
MCStrings == [a \in {310} |-> "text"]
MCReadOnly == [a \in {300} |-> 42]
MCRegisterWrites ==
  [r \in {"RAX", "RBX", "RSI", "RSP", "RBP", "R10", "AL", "AH"} |->
     CASE r = "RAX" -> "rax" [] r = "RBX" -> "rbx" [] r = "RSI" -> "rsi" [] r = "RSP" -> "rsp"
       [] r = "RBP" -> "rbp" [] r = "R10" -> "r10" [] r = "AL" -> "al" [] r = "AH" -> "ah"]
MCRegisterReads == ("RCX" :> "param_1") @@ ("RDX" :> "param_2") @@ MCRegisterWrites
MCReturnNames == [n \in {"f"} |-> "alloc"]
MCParamNames == [n \in {"use"} |-> <<"lock">>]
MCStackOffset == [n \in {"var_8"} |-> -8]
MCSemanticMap == [n \in {"ADC", "BSWAP"} |->
                    IF n = "ADC" THEN "add_with_carry" ELSE "byte_swap"]
MCUnsuffixed == [n \in {"ADCmem"} |-> "ADC"]
MCRepWrapped == [n \in {"DoREP_MOVSB"} |-> <<"rep", "MOVSB">>]
MCDoWrapped == [n \in {"DoBSWAP"} |-> "BSWAP"]
MCSuffixOf == [n \in {"param_1_2"} |-> "param_1"]
=============================================================================
