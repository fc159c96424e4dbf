----------------------------- MODULE CAstBuilder -----------------------------
(***************************************************************************)
(* The step before the optimizer, src/engine/src/cast/CAstBuilder.cpp: the *)
(* tree of a function is built from the operations the passes left, of     *)
(* all tiers at once.  The builder prints an operation where its value is  *)
(* used, follows copies between temporaries while it goes through a block, *)
(* drops what it takes for bookkeeping, turns the values that leave a      *)
(* branch into variables, and scores the result.                           *)
(*                                                                         *)
(* A function that is not built yet has operations in the same shape of    *)
(* tree.  The value of an operation that is used once is written in place  *)
(* of that use; the others are named by def (or fixed, when the value is   *)
(* of a fixed width), call, lowcall and llvmcall, and used as ssa.  The    *)
(* expressions there are, beside those of C:                               *)
(*   llvm op, reg, step, lea, test, cmp, machine  what the lower tiers have *)
(*   load, fieldptr, addrlit                    memory and addresses       *)
(*   unknown, undef, state, opaque, other       what the lifter left open  *)
(* and the statements: regwrite, store, lowret, xchg, trap, rep of the low *)
(* tier; scfif and scfswitch, whose arms end in a yield of their results;  *)
(* the blocks of a control flow that stayed as it was, with br, condbr and *)
(* cfswitch to go from one to the other; unhandled; infra and low, marked  *)
(* or known as bookkeeping; and push and pop.                              *)
(*                                                                         *)
(* Left out: ternaries, for loops, names of fields and aliases of names,   *)
(* floats, vectors, and the casts comparisons get (HighToC has those).     *)
(***************************************************************************)
EXTENDS CAstConfidence
CONSTANTS CalleeAt,      \* sub_<address> -> address
          Indirect,      \* sub_<address> -> what a call through it is called
          Virtual,       \* __vtable_<offset> -> vfunc_<offset>
          Window,        \* a constant keeps its address up to this
          Strings,       \* address in the data -> text
          ReadOnly,      \* address in the data -> word
          RegisterReads, \* register -> the variable a read of it becomes
          RegisterWrites,\* register -> the variable a write of it becomes
          VoidCallees,   \* known to return nothing
          MemoryReads,   \* intrinsics that read memory
          UpperCase      \* callees that look like mnemonics

FirstFresh == 950000
Valued == {"def", "fixed", "call", "lowcall", "llvmcall", "infra", "pop"}

-----------------------------------------------------------------------------
(***************************************************************************)
(* What is collected of a function before it is built.                     *)
(***************************************************************************)
Lists(body) == {body} \cup UNION {ToSet(s.arms) : s \in ToSet(Flat(body))}

\* labels with nothing behind them but a return
ReturnOnlyLabels(body) ==
  {l.n : l \in UNION {{list[i] : i \in {j \in DOMAIN list :
        /\ list[j].k = "label"
        /\ \E r \in j + 1 .. Len(list) :
             list[r].k = "return" /\ \A o \in j .. r - 1 : list[o].k = "label"}} :
      list \in Lists(body)}}

\* the blocks something jumps to
ReferencedBlocks(body) == {s.n : s \in {t \in ToSet(Flat(body)) : t.k = "br"}}

\* the labels that stand in such a block
LabelledBlocks(body) ==
  UNION {LabelsIn(<<s>>) : s \in {t \in ToSet(body) :
                                   t.k = "block" /\ t.n \in ReferencedBlocks(body)}}

\* what the function returns where no value is written
ReturnName(fn) ==
  LET names == ToSet(fn.locals) \cap NamesIn(fn.body)
  IN IF "rax" \in names /\ "result" \notin names THEN "rax" ELSE "result"

\* the addresses of the function's blocks, and of its instructions
BlockRegistry(fn) ==
  {CodeLabels[s.n] : s \in {t \in ToSet(Flat(fn.body)) :
                              t.k \in {"label", "goto", "block"} /\ t.n \in DOMAIN CodeLabels}}
CodeAddresses(fn) ==
  {e.v : e \in {c \in ExprsOf(fn.body) :
                  c.k = "call" /\ c.v # 0 /\ c.v \div Window = fn.source.entry \div Window}}

\* the builder before the first statement
ClearFunctionState(fn) ==
  LET ops == ToSet(Flat(fn.body))
      named == {s \in ops : s.k \in Valued /\ s.n # ""}
      merged == {s \in ops : s.k \in {"scfif", "scfswitch"}}
      code == CodeAddresses(fn)
  IN [defs |-> [id \in {s.n : s \in named} |-> (CHOOSE s \in named : s.n = id).x[1]],
      \* the operation behind a result of a region reads its condition
      merges |-> [id \in UNION {{s.x[i].n : i \in 2 .. Len(s.x)} : s \in merged} |->
                    (CHOOSE s \in merged : \E i \in 2 .. Len(s.x) : s.x[i].n = id).x[1]],
      fixed |-> {s.n : s \in {t \in named : t.k = "fixed"}},
      calls |-> {s.n : s \in {t \in named : t.k = "call"}},
      arguments |-> [l \in {s.n : s \in {t \in ops : t.k = "block"}} |->
                       (CHOOSE s \in ops : s.k = "block" /\ s.n = l).x],
      returnOnly |-> ReturnOnlyLabels(fn.body),
      referencedLabels |-> GotosIn(fn.body) \ ReturnOnlyLabels(fn.body),
      referencedBlocks |-> ReferencedBlocks(fn.body),
      labels |-> (GotosIn(fn.body) \ ReturnOnlyLabels(fn.body))
                   \cup LabelledBlocks(fn.body),
      returns |-> fn.source.returns, returnName |-> ReturnName(fn),
      blockStarts |-> BlockRegistry(fn) \ {0},
      functionStarts |-> (fn.source.starts \cup {fn.source.entry}) \ {0},
      authoritative |-> fn.source.starts # {},
      entry |-> fn.source.entry, code |-> code,
      lowest |-> IF code = {} THEN fn.source.entry
                 ELSE Least(fn.source.entry, CHOOSE a \in code : \A c \in code : a <= c),
      highest |-> IF code = {} THEN 0 ELSE CHOOSE a \in code : \A c \in code : a >= c,
      \* what changes on the way
      last |-> <<>>, stored |-> <<>>, legal |-> <<>>, made |-> <<>>,
      defects |-> {}, outOfTableCalls |-> 0]

-----------------------------------------------------------------------------
(***************************************************************************)
(* Expressions.                                                            *)
(***************************************************************************)
\* the operation behind a value, if it has one
Behind(e, b) == IF e.k = "ssa" /\ e.n \in DOMAIN b.defs THEN b.defs[e.n] ELSE e
HasOperation(e, b) == e.k # "ssa" \/ e.n \in DOMAIN b.defs \cup DOMAIN b.merges

LabelOf(address) == CHOOSE l \in DOMAIN CodeLabels : CodeLabels[l] = address
\* an address inside the function: of a label that is printed, or bare
CodePointer(address, b) ==
  IF address \in b.blockStarts /\ LabelOf(address) \in b.referencedLabels
    THEN AddressOf(Var(LabelOf(address))) ELSE AddressLeak(address)

\* the address a constant had before its upper half was cut off
Unfolded(v, b) == (b.entry \div Window) * Window + (v % Window)
IsFoldedCode(v, b) ==
  /\ b.entry # 0
  /\ Unfolded(v, b) \in b.lowest .. b.highest
  /\ Unfolded(v, b) \in b.blockStarts \cup b.functionStarts \cup b.code

BuildIntegerConstant(v, b) ==
  IF v \in b.blockStarts THEN CodePointer(v, b)
  ELSE IF v \in b.functionStarts THEN AddressLeak(v)
  ELSE IF IsFoldedCode(v, b) THEN CodePointer(Unfolded(v, b), b)
  ELSE IF v \in DOMAIN Strings THEN Text(Strings[v])
  ELSE Num(v)

RECURSIVE ConstantOffset(_, _)
\* the value of sums and differences of constants, or none
ConstantOffset(e, b) ==
  LET o == Behind(e, b)
  IN IF o.k = "int" THEN {o.v}
     ELSE IF o.k = "llvm" /\ o.n \in {"+", "-"}
       THEN {IF o.n = "+" THEN l + r ELSE l - r :
               l \in ConstantOffset(o.x[1], b), r \in ConstantOffset(o.x[2], b)}
     ELSE {}

RECURSIVE Follow(_, _, _)
Follow(e, last, hops) ==
  IF hops = 0 \/ e.k # "var" \/ e.n \notin Temporaries \cap DOMAIN last THEN e
  ELSE Follow(last[e.n], last, hops - 1)
\* what the last copies made of a temporary say it is
ResolveTransitive(name, b) == Follow(Var(name), b.last, 5)

\* a call of what is not a function is not given a function's name
GateCalleeName(f, b) ==
  IF f \notin DOMAIN CalleeAt \/ CalleeAt[f] \in b.functionStarts THEN f
  ELSE IF CalleeAt[f] \in b.blockStarts \/ b.authoritative THEN Indirect[f] ELSE f

\* the value of a variable, through the copies of it
BuildVariable(e, b) ==
  IF e.n \in Temporaries \cap DOMAIN b.last THEN ResolveTransitive(e.n, b) ELSE e

\* a value of the region, of a block's arguments, or of no operation
BuildLegalized(e, b) ==
  Var(IF e.n \in DOMAIN b.legal THEN b.legal[e.n]
      ELSE IF e.n \in DOMAIN b.stored THEN b.stored[e.n] ELSE "block_arg0")

\* a word at an address; one of the image that nobody writes is its value
BuildWord(address, x, b) ==
  LET literal == Behind(address, b)
  IN IF literal.k = "int" /\ literal.v \in DOMAIN ReadOnly
       THEN Num(ReadOnly[literal.v]) ELSE Deref(x)

\* a call as C; x are its arguments
BuildCallee(e, x, b) ==
  [e EXCEPT !.x = x, !.n = IF @ \in DOMAIN Virtual THEN Virtual[@] ELSE GateCalleeName(@, b)]

\* what the middle tier has of addresses, x are built operands
BuildMid(e, x) ==
  CASE e.k = "fieldptr" -> AddressOf(Field(e.v, x[1]))
    [] e.k = "addrlit"  -> IF e.v \in DOMAIN Strings THEN Text(Strings[e.v])
                           ELSE Expr("addr", "lit", e.v, <<>>)
    [] e.k = "unknown"  -> Call("__helix_unknown", <<Text(e.n)>>, 0)

\* arithmetic, logic and casts are the same in every tier
BuildOperation(e, x) == [e EXCEPT !.x = x]

\* what an instruction reads and computes
BuildLow(e, x) ==
  CASE e.k = "reg" -> Var(RegisterReads[e.n])
    [] e.k = "machine" -> Call(e.n, x, 0)
    [] e.k = "cmp" -> Bin(IF e.n = "zero" THEN "==" ELSE "<", x[1], x[2])
    [] e.k = "step" -> Bin(e.n, x[1], Num(1))
    [] e.k = "pop" -> Call("pop", x, 0)
BuildTest(e, x) == Bin(e.n, Bin("&", x[1], x[2]), Num(0))
BuildLea(e, x) == IF e.v = 0 THEN x[1] ELSE Bin("+", x[1], Num(e.v))

\* sums and differences that are addresses of code, and the others
BuildLlvm(e, x, folded, b) ==
  IF \E v \in folded : IsFoldedCode(v, b)
    THEN CodePointer(Unfolded(CHOOSE v \in folded : TRUE, b), b)
    ELSE Bin(e.n, x[1], x[2])

\* the calls that are left of the lifter's own functions
BuildIntrinsic(e, x) == IF e.n \in MemoryReads THEN Deref(x[Len(x)]) ELSE Call(e.n, x, 0)

\* an operation nobody knows keeps its operands
BuildUnknown(e, x) == Call("__helix_unhandled_" \o e.n, x, 0)

RECURSIVE BuildExpression(_, _)
\* the value e as C, when the builder is in state b
BuildExpression(e, b) ==
  LET built(d) == BuildExpression(d, b)
      x == [i \in DOMAIN e.x |-> built(e.x[i])]
      pointee == Behind(Behind(e.x[1], b).x[1], b)
  IN CASE e.k = "ssa" ->
            IF e.n \notin DOMAIN b.legal \cup DOMAIN b.stored /\ e.n \in DOMAIN b.defs
              THEN built(b.defs[e.n]) ELSE BuildLegalized(e, b)
       [] e.k = "var" -> BuildVariable(e, b)
       [] e.k = "int" -> BuildIntegerConstant(e.v, b)
       [] e.k = "un" /\ e.n = "*" ->
            IF /\ Behind(e.x[1], b).k = "un" /\ Behind(e.x[1], b).n = "&"
               /\ pointee.k = "field" THEN built(pointee)
            ELSE BuildWord(e.x[1], x[1], b)
       [] e.k = "load" -> BuildWord(e.x[1], x[1], b)
       [] e.k = "opaque" \/ (e.k = "call" /\ e.n \in MemoryReads) -> BuildIntrinsic(e, x)
       [] e.k = "call" /\ e.n \notin MemoryReads -> BuildCallee(e, x, b)
       [] e.k \in {"fieldptr", "addrlit", "unknown"} -> BuildMid(e, x)
       [] e.k \in {"reg", "cmp", "machine", "step", "pop"} -> BuildLow(e, x)
       [] e.k = "test" -> BuildTest(e, x)
       [] e.k = "lea" -> BuildLea(e, x)
       [] e.k = "llvm" -> BuildLlvm(e, x, ConstantOffset(e, b), b)
       [] e.k \in {"undef", "state"} -> Var("__undef")
       [] e.k = "other" -> BuildUnknown(e, x)
       [] OTHER -> BuildOperation(e, x)

\* the state after the expressions es were built: calls that could not be
\* named are counted, and a call of one of the function's own blocks is damning
Building(es, b) ==
  LET indirect == SelectSeq(FlattenSeq([i \in DOMAIN es |-> SubExprs(es[i])]),
                            LAMBDA e : e.k = "call" /\ e.n \in {Indirect[f] : f \in DOMAIN Indirect})
      target(e) == CalleeAt[CHOOSE f \in DOMAIN Indirect : Indirect[f] = e.n]
      own == SelectSeq(indirect, LAMBDA e : target(e) \in b.blockStarts)
  IN [b EXCEPT !.outOfTableCalls = @ + Len(indirect) - Len(own),
               !.defects = IF own = <<>> THEN @ ELSE @ \cup {"hasDamningHonestyDefect"}]

-----------------------------------------------------------------------------
(***************************************************************************)
(* What is left out of a block.                                            *)
(***************************************************************************)
RECURSIVE Reads(_, _)
\* the variables the operations behind e read
Reads(e, b) ==
  LET o == IF e.k = "ssa" /\ e.n \in DOMAIN b.merges THEN b.merges[e.n] ELSE Behind(e, b)
  IN IF o.k = "var" THEN {o.n}
     ELSE IF o = e /\ e.k = "ssa" THEN {} ELSE UNION {Reads(o.x[i], b) : i \in DOMAIN o.x}

\* the assignments of the block to what is assigned again before a read
PrecomputeDeadStores(ops, b) ==
  LET step(i, acc) ==
        LET s == ops[i]
            v == Value(s)
            name == Behind(Target(s), b).n
            read == Reads(v, b)
            over == acc.over \ read
            call == v.k = "ssa" /\ v.n \in b.calls
        IN CASE IsAssign(s) ->
                  IF \/ ~HasOperation(Target(s), b) \/ Behind(Target(s), b).k # "var"
                     \/ name \in Synthetic \cup FloatNames THEN acc
                  ELSE IF call \/ name \in read THEN [acc EXCEPT !.over = over \ {name}]
                  ELSE IF name \in over THEN [dead |-> acc.dead \cup {i}, over |-> over]
                  ELSE [acc EXCEPT !.over = over \cup {name}]
             [] s.k = "return" ->
                  [acc EXCEPT !.over = @ \ (VarsIn([j \in DOMAIN s.x |-> Behind(s.x[j], b)])
                                              \cup {b.returnName})]
             [] s.k \in {"scfif", "scfswitch", "if", "while", "dowhile", "switch",
                         "br", "condbr", "cfswitch", "call", "expr"} ->
                  [acc EXCEPT !.over = {}]
             [] OTHER -> acc
  IN FoldRight(LAMBDA i, acc : step(i, acc), [i \in DOMAIN ops |-> i],
               [dead |-> {}, over |-> {}]).dead

\* what saves and restores the frame pointer
IsPrologueArtifact(s, b) ==
  /\ IsAssign(s)
  /\ {<<Behind(Target(s), b), Behind(Value(s), b)>>}
       \subseteq {<<Var("rbp"), Var("rsp")>>, <<Var("rsp"), Var("rbp")>>}

\* operations that are printed where they are used, and bookkeeping
ShouldSkip(s, b) ==
  \/ s.k \in {"def", "fixed", "yield", "infra", "low", "push", "pop"}
  \/ IsPrologueArtifact(s, b)

\* a statement of the block prints the call when it prints what it uses
RECURSIVE UsesThroughCasts(_, _, _)
UsesThroughCasts(e, id, b) ==
  \/ e.k = "ssa" /\ e.n = id
  \/ LET o == Behind(e, b) IN o.k = "cast" /\ UsesThroughCasts(o.x[1], id, b)
HasEmittingUser(ops, s, b) ==
  s.n # "" /\ \E u \in ToSet(ops), i \in 1 .. 2 :
    /\ u.k \in (IF s.k = "call" THEN {"assign", "return"} ELSE {"assign", "return", "regwrite"})
    /\ i \in DOMAIN u.x
    /\ IF s.k = "call" THEN UsesThroughCasts(u.x[i], s.n, b)
       ELSE u.x[i].k = "ssa" /\ u.x[i].n = s.n

-----------------------------------------------------------------------------
(***************************************************************************)
(* Statements.  Building one gives the statements it becomes and the state *)
(* after it.                                                               *)
(***************************************************************************)
Gives(list, b) == [list |-> list, b |-> b]
Nothing(b) == Gives(<<>>, b)
\* the statement s, made of built expressions
Built(s, b) == Gives(<<s>>, Building(s.x, b))
Forgets(b) == [b EXCEPT !.last = <<>>]

\* a local of a new name
Fresh(kind, i, b) == kind \o ToString(FirstFresh + Len(b.made) + i - 1)

\* a return where the builder does not know the value
ImplicitReturn(b) == IF b.returns THEN Return(Var(b.returnName)) ELSE ReturnVoid

GivesUp(callee, b) ==
  Gives(<<Do(Call(callee, <<>>, 0))>>,
        [b EXCEPT !.defects = @ \cup {"hasDamningHonestyDefect"}])

\* what an assignment target is called when copies are followed
Shown(e) == CASE e.k = "var" -> Var(e.n)
              [] e.k \in {"int", "addr"} -> Num(e.v)
              [] OTHER -> Text("__expr")
IsShown(e) == e.k \in {"var", "int", "addr"}
IsSelector(e) == e.k = "var" /\ e.n \in Synthetic

\* t was assigned v: what was known of t, and what was t, is forgotten
Tracked(t, v, last) ==
  LET kept == [n \in {m \in DOMAIN last : m # t.n /\ last[m] # Var(t.n)} |-> last[n]]
  IN IF t.k # "var" \/ IsSelector(t) THEN last
     ELSE IF IsShown(v) /\ ~IsSelector(v) THEN (t.n :> Shown(v)) @@ kept ELSE kept

\* v is an operation on the variable t, and the operand that is not t
DetectCompoundOp(t, v, b) ==
  LET o == Behind(v, b)
      at(i) == Behind(o.x[i], b)
      none == [op |-> "", keep |-> v]
  IN IF o.k # "bin" \/ o.n \notin ArithOps \/ t.k # "var" THEN none
     ELSE IF at(1).k = "var" /\ at(1).n = t.n
       THEN IF o.n \in {"+", "-"} /\ at(2).k = "int" /\ at(2).v = 1
              THEN [op |-> o.n \o o.n, keep |-> v] ELSE [op |-> o.n, keep |-> o.x[2]]
     ELSE IF at(2).k = "var" /\ at(2).n = t.n /\ o.n \in Commutative
       THEN [op |-> o.n, keep |-> o.x[1]]
     ELSE none

\* from now on the value v is read from the variable t
Materialized(t, v, b) ==
  LET kept == {id \in DOMAIN b.stored : b.stored[id] # t.n}
  IN (v.n :> t.n) @@ [id \in kept |-> b.stored[id]]

\* t = v of the assignment s, where v may be an operation on t itself
Combined(s, t, v, compound, b) ==
  LET whole == compound.keep = Value(s)
      w == IF whole THEN v ELSE BuildExpression(compound.keep, b)
      after == IF whole THEN b ELSE Building(<<w>>, b)
  IN Gives(<<Compound(compound.op, t, w)>>,
           IF Value(s).k = "ssa" /\ Value(s).n \in b.fixed /\ t.k = "var"
             THEN [after EXCEPT !.stored = Materialized(t, Value(s), after)] ELSE after)

\* b is the state after v was built
Assigned(s, t, v, b) ==
  IF v.k = "call" /\ v.n \in VoidCallees THEN Gives(<<Do(v)>>, Forgets(b))
  ELSE IF t.k = "int" THEN IF v.k = "call" THEN Gives(<<Do(v)>>, b) ELSE Nothing(b)
  ELSE IF t.k = "var" /\ IsShown(v) /\ t.n \in DOMAIN b.last /\ b.last[t.n] = Shown(v)
    THEN Nothing(b)
  ELSE Combined(s, t, v, DetectCompoundOp(t, Value(s), b),
                [b EXCEPT !.last = Tracked(t, v, @)])

BuildAssign(s, b) ==
  LET target == Behind(Target(s), b)
      source == Behind(Value(s), b)
      v == BuildExpression(Value(s), b)
  IN IF /\ HasOperation(Target(s), b) /\ HasOperation(Value(s), b)
        /\ \/ target.k = "var" /\ target.n \in Promoted \cup {"rsp"}
           \/ source = Var("rsp") THEN Nothing(b)
     ELSE Assigned(s, IF target.k = "var" THEN target ELSE BuildExpression(Target(s), b),
                   v, Building(<<v>>, b))

\* a store to memory; one to a literal address is not printed
BuildStore(s, b) ==
  LET t == BuildExpression(s.x[1], b)
      v == BuildExpression(s.x[2], b)
  IN IF t.k # "int" THEN Built(Assign(Deref(t), v), b)
     ELSE IF v.k = "call" THEN Built(Do(v), b) ELSE Nothing(Building(<<v>>, b))

\* the way from one block to another: all values first, then the arguments
BuildCfgEdge(br, b) ==
  LET args == b.arguments[br.n]
      known == SelectSeq([i \in 1 .. Least(Len(args), Len(br.x)) |-> i],
                         LAMBDA i : args[i].n \in DOMAIN b.legal)
      value(j) == BuildExpression(br.x[known[j]], b)
      edge(j) == Fresh("cfg_edge", j, b)
      names == [j \in DOMAIN known |-> edge(j)]
  IN Gives([j \in DOMAIN known |-> Assign(Var(edge(j)), value(j))]
             \o [j \in DOMAIN known |->
                   Assign(Var(b.legal[args[known[j]].n]), Var(edge(j)))]
             \o <<Goto(br.n)>>,
           [Building([i \in DOMAIN br.x |-> BuildExpression(br.x[i], b)], b) EXCEPT
              !.made = @ \o names])

\* a call nothing else prints.  A call through a vtable is printed without its
\* object; llvm's calls are not checked and lose what points to the lifter's state
Printed(s, call, b) ==
  LET kept == SelectSeq(call.x, LAMBDA e : e.k # "state")
  IN IF s.k = "llvmcall"
       THEN [call EXCEPT !.x = [i \in DOMAIN kept |-> BuildExpression(kept[i], b)]]
     ELSE IF s.k = "call" /\ call.n \in DOMAIN Virtual /\ call.x # <<>>
       THEN BuildExpression([call EXCEPT !.x = Tail(@)], b)
     ELSE BuildExpression(call, b)
BuildCall(ops, s, b) ==
  LET Emitted(c) == Gives(<<Do(c)>>, IF s.k = "call" THEN Building(<<c>>, b)
                                     ELSE Forgets(Building(<<c>>, b)))
  IN IF \/ s.k = "llvmcall" /\ s.x[1].n \in MemoryReads
        \/ s.k # "llvmcall" /\ HasEmittingUser(ops, s, b) THEN Nothing(b)
     ELSE Emitted(Printed(s, s.x[1], b))

\* bookkeeping: the flags, the frame and what nobody knows
Untracked == {"CF", "ZF", "SF", "OF", "PF", "AF", "RSP", "RBP"}
BuildRegWrite(s, b) ==
  IF s.n \in Untracked \/ Behind(s.x[1], b).k \in {"undef", "state"} THEN Nothing(b)
  ELSE Built(Assign(Var(RegisterWrites[s.n]), BuildExpression(s.x[1], b)), b)

\* a jump to a label that only returns is a return
BuildGoto(s, b) ==
  Gives(<<IF s.n \in b.returnOnly THEN ImplicitReturn(b) ELSE s>>, b)

BuildExchange(s, b) ==
  Gives(<<Do(Call("__helix_xchg_reg64", <<AddressOf(s.x[1]), AddressOf(s.x[2])>>, 0))>>, b)

\* what several values of a region become: locals of their own
Legalized(ids, kind, b) ==
  [b EXCEPT !.legal = [id \in ToSet(ids) |->
                         Fresh(kind, CHOOSE i \in DOMAIN ids : ids[i] = id, b)] @@ @,
            !.made = @ \o [i \in DOMAIN ids |-> Fresh(kind, i, b)]]

IsMultiBlock(region) == region # <<>> /\ region[1].k = "block" /\ Len(region) > 1

RECURSIVE BuildStatement(_, _, _), BuildBlock(_, _), BuildRegionBody(_, _),
          BuildArms(_, _, _)

\* after the statements of acc come those of r
Then(acc, r) == Gives(acc.list \o r.list, r.b)
\* the next of several lists is finished, with the values it gives the names
Finished(acc, r, names, values) ==
  Gives(Append(acc.list, r.list \o [i \in DOMAIN values |-> Assign(Var(names[i]), values[i])]),
        Building(values, r.b))

\* the operations of one block, each with the state the ones before left
BuildBlock(ops, b) ==
  LET start == [b EXCEPT !.last = <<>>, !.stored = <<>>]
      dead == PrecomputeDeadStores(ops, start)
      step(acc, i) == IF i \in dead \/ ShouldSkip(ops[i], acc.b) THEN acc
                      ELSE Then(acc, BuildStatement(ops, ops[i], acc.b))
  IN FoldLeft(step, Nothing(start), [i \in DOMAIN ops |-> i])

\* the blocks of a region; the first has no label
Blocks(region) ==
  IF region # <<>> /\ region[1].k = "block" THEN region
  ELSE <<Stmt("block", "", <<>>, <<region>>)>>
BuildRegionBody(region, b) ==
  LET blocks == Blocks(region)
      step(acc, i) ==
        LET ops == blocks[i].arms[1]
            labelled == \E o \in ToSet(ops) : o.k = "label"
            label == IF i > 1 /\ ~labelled /\ blocks[i].n \in acc.b.referencedBlocks
                       THEN <<Label(blocks[i].n)>> ELSE <<>>
        IN Then(Gives(acc.list \o label, acc.b), BuildBlock(ops, acc.b))
  IN FoldLeft(step, Nothing(b), [i \in DOMAIN blocks |-> i])

\* regions one after the other; what each yields is assigned to names
BuildArms(arms, names, b) ==
  LET yielded(arm) == IF names = <<>> THEN <<>> ELSE arm[Len(arm)].x
      ended(acc, arm, r) ==
        Finished(acc, r, names, [i \in DOMAIN yielded(arm) |-> BuildExpression(yielded(arm)[i], r.b)])
      step(acc, arm) == ended(acc, arm, BuildRegionBody(arm, acc.b))
  IN FoldLeft(step, Nothing(b), arms)

BuildEdges(arms, b) ==
  FoldLeft(LAMBDA acc, arm : Finished(acc, BuildCfgEdge(arm[1], acc.b), <<>>, <<>>),
           Nothing(b), arms)

\* an if or a switch with results.  The condition of the if is built before its
\* arms, the selector of the switch after them
Merged(s, built, b) ==
  IF s.k = "scfif" THEN Gives(<<If(built.c, built.list[1], built.list[2])>>, b)
  ELSE LET c == BuildExpression(s.x[1], b)
       IN Gives(<<Switch(c, [i \in DOMAIN built.list |-> Append(built.list[i], Break)])>>,
                Building(<<c>>, b))
BuildScf(s, b) ==
  LET ids == [i \in 1 .. Len(s.x) - 1 |-> s.x[i + 1].n]
      names == [i \in DOMAIN ids |-> Fresh("scf_r", i, b)]
      Armed(c, b1) ==
        LET arms == BuildArms(s.arms, names, IF s.k = "scfif" THEN Building(<<c>>, b1) ELSE b1)
        IN Merged(s, [c |-> c, list |-> arms.list], arms.b)
      Begun(b1) == Armed(BuildExpression(s.x[1], b1), b1)
  IN IF \E arm \in ToSet(s.arms) : IsMultiBlock(arm)
       THEN GivesUp(IF s.k = "scfif" THEN "__helix_unhandled_cf_scf_if"
                    ELSE "__helix_unhandled_cf_scf_index_switch", b)
     ELSE Begun(Legalized(ids, "scf_r", b))

\* branches and loops without results.  An if forgets the copies before its
\* condition, the condition of a do-while is built after its body
BuildNest(s, b) ==
  LET Nested(c, arms) == Gives(<<Stmt(s.k, "", <<c>>, arms.list)>>, arms.b)
      Opened(c, b1) == Nested(c, BuildArms(s.arms, <<>>, Building(<<c>>, b1)))
      Closed(c, arms) == Gives(<<Stmt(s.k, "", <<c>>, arms.list)>>, Building(<<c>>, arms.b))
      Repeated(arms) == Closed(BuildExpression(s.x[1], arms.b), arms)
      before == IF s.k = "if" THEN Forgets(b) ELSE b
  IN IF s.k = "dowhile" THEN Repeated(BuildArms(s.arms, <<>>, b))
     ELSE Opened(BuildExpression(s.x[1], before), before)

\* branches of the control flow that stayed as it was
BuildBranch(s, b) ==
  LET Chosen(c, edges) ==
        Gives(<<IF s.k = "condbr" THEN If(c, edges.list[1], edges.list[2])
                ELSE Switch(c, edges.list)>>, Building(<<c>>, edges.b))
      After(edges) == Chosen(BuildExpression(s.x[1], edges.b), edges)
  IN After(BuildEdges(s.arms, b))

BuildReturn(s, b) ==
  LET Returning(v) == Gives(<<Return(v)>>, Building(<<v>>, b))
  IN IF s.k = "return" /\ s.x # <<>> THEN Returning(BuildExpression(s.x[1], b))
     ELSE Gives(<<ImplicitReturn(b)>>, b)

\* the statement s, among the operations ops of its block
BuildStatement(ops, s, b) ==
  LET x == [i \in DOMAIN s.x |-> BuildExpression(s.x[i], b)]
  IN CASE s.k = "assign" -> BuildAssign(s, b)
       [] s.k \in {"call", "lowcall", "llvmcall"} -> BuildCall(ops, s, b)
       [] s.k = "regwrite" -> BuildRegWrite(s, b)
       [] s.k = "store" -> BuildStore(s, b)
       [] s.k = "goto" -> BuildGoto(s, b)
       [] s.k = "label" ->
            IF s.n \in b.labels THEN Gives(<<s>>, b) ELSE Nothing(b)
       [] s.k \in {"return", "lowret"} -> BuildReturn(s, Forgets(b))
       [] s.k = "xchg" -> BuildExchange(s, b)
       [] s.k = "trap" -> Gives(<<Do(Call("__debugbreak", <<>>, 0))>>, b)
       [] s.k = "rep" -> Built(Do(Call(s.n, x, 0)), b)
       [] s.k = "unhandled" -> Built(Do(Call("__helix_unhandled_" \o s.n, x, 0)), b)
       [] s.k \in {"scfif", "scfswitch"} -> BuildScf(s, b)
       [] s.k \in {"if", "while", "dowhile", "switch"} -> BuildNest(s, b)
       [] s.k = "br" -> BuildCfgEdge(s, b)
       [] s.k \in {"condbr", "cfswitch"} -> BuildBranch(s, b)
       [] OTHER -> Built([s EXCEPT !.x = x], b)

-----------------------------------------------------------------------------
(***************************************************************************)
(* The score the builder gives, and the function it returns.               *)
(***************************************************************************)
\* the operations of the function, declarations included
OpCount(fn) ==
  LET ops == SelectSeq(Flat(fn.body), LAMBDA s : s.k # "block")
      nodes == [i \in DOMAIN ops |->
                  Len(SelectSeq(FlattenSeq([j \in DOMAIN ops[i].x |-> SubExprs(ops[i].x[j])]),
                                LAMBDA e : e.k # "ssa"))]
  IN 1 + Len(fn.params) + Len(fn.locals) + Len(ops) + FoldLeft(+, 0, nodes)

\* how much shorter than a real function it is
Stub(fn, body) == Len(body) <= 1 /\ OpCount(fn) < 5
MissesRegistry(fn, body) ==
  /\ Stub(fn, body)
  /\ fn.source.starts # {} /\ fn.source.entry \notin fn.source.starts \cup {0}

\* of what is built, in hundredths: fn are the operations, made what they became
BuildDeduction(fn, made) ==
  LET ops == Flat(fn.body)
      short == IF Stub(fn, made.body) THEN 4000
               ELSE IF Len(made.body) <= 3 /\ OpCount(fn) < 10 THEN 1500 ELSE 0
      opcodes == Tally(ops, LAMBDA s : s.k = "call" /\ s.x[1].n \in UpperCase)
      gotos == Tally(ops, LAMBDA s : s.k = "goto")
      bare == Tally(ops, LAMBDA s : s.k = "if" /\ Len(s.arms[1]) <= 1)
                + Tally(ops, LAMBDA s : s.k = "if" /\ Len(s.arms[2]) = 1)
      typed == Tally(fn.params, LAMBDA n : n \in TypedNames)
      reached == Reached(made.body)
  IN short + Costs(opcodes, 300, 3000)
       + Costs(made.outOfTableCalls, 300, 1500)
       + Costs(Tally(made.locals, LAMBDA n : n \in RegisterNamed), 200, 2000)
       + (IF gotos > 3 THEN Costs(gotos - 3, 300, 1500) ELSE 0)
       + 300 * bare
       - (IF typed = 0 THEN 0 ELSE (500 * typed) \div Len(fn.params))
       + Costs(UnreachableAfterReturn(made.body), 500, 4000)
       + Costs(NullDerefPlaceholders(made), 1000, 3000)
       + Costs(Tally(reached, SuspiciousSelfRef), 500, 2000)
       + Costs(Tally(reached, IdentityNoOp), 300, 1000)

OpaqueReads(fn) == \E e \in ExprsOf(fn.body) : e.k = "opaque"

AnalyzeConfidence(fn, made) ==
  LET left == 10000 - BuildDeduction(fn, made)
      points == IF left < 0 THEN 0 ELSE Least(left, 10000)
      capped == made.defects \cap {"incompleteAbiCalls", "opaquePostCallReads",
                                   "hasDamningHonestyDefect"} # {}
  IN IF ~fn.source.high THEN 5000
     ELSE IF capped \/ DetectDamningDefects(made) THEN Least(points, 5000) ELSE points

\* what became of the operations fn; the locals declared are those they refer to
Made(fn, built) ==
  [fn EXCEPT
     !.locals = SelectSeq(@, LAMBDA n : n \in NamesIn(fn.body)) \o built.b.made,
     !.body = built.list,
     !.outOfTableCalls = built.b.outOfTableCalls,
     !.defects = @ \cup built.b.defects
                   \cup (IF OpaqueReads(fn) THEN {"opaquePostCallReads"} ELSE {})
                   \cup (IF MissesRegistry(fn, built.list) /\ fn.source.high
                           THEN {"registryMissHonestFailure"} ELSE {})]
Scored(fn, made) == [made EXCEPT !.confidenceScore = AnalyzeConfidence(fn, made)]

BuildFunction(fn) ==
  LET arguments == FlattenSeq([i \in DOMAIN fn.body |->
                     IF i > 1 /\ fn.body[i].k = "block"
                       THEN [j \in DOMAIN fn.body[i].x |-> fn.body[i].x[j].n] ELSE <<>>])
      start == Legalized(arguments, "cfg_phi", ClearFunctionState(fn))
  IN Scored(fn, Made(fn, BuildRegionBody(fn.body, start)))
=============================================================================
