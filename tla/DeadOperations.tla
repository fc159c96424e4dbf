--------------------------- MODULE DeadOperations ---------------------------
(***************************************************************************)
(* What the passes before the builder take away from the operations of a   *)
(* function (see CAstBuilder for their shape): BindReturnValues.cpp,       *)
(* EliminateDeadCode.cpp and MemorySlotPilot.cpp of                        *)
(* src/engine/src/passes.  The first names the variable that a return of   *)
(* the low tier gives back, because nothing else says that it is read; the *)
(* second removes the traces of the machine and what no statement needs;   *)
(* the third, run on request, makes values of the slots of the frame.      *)
(*                                                                         *)
(* Two statements are only met here: push of a register, and pop of a      *)
(* value.  With two expressions the lifter took it for the save of a       *)
(* register.  A value that is written in place of its one use goes with    *)
(* that use, and the bridge has run: no region gives a value.              *)
(*                                                                         *)
(* Left out: functions of the middle tier, which no pass makes, and which  *)
(* flag of a comparison is used: it goes when none is.                     *)
(***************************************************************************)
EXTENDS CAstBuilder
CONSTANTS Lane,          \* register -> the register it is part of, its bits
          NonVolatile,   \* registers a function saves
          Volatile,      \* registers a call does not preserve
          VectorNames,   \* registers whose reads are not modelled
          StackSlots,    \* variables that are slots of the frame
          MaxSweeps      \* how often dead variables are looked for

Ops(body)     == ToSet(Flat(body))
\* the labels in front of a block are the values it is given
Operands(s)   == IF s.k = "block" THEN <<>> ELSE s.x
ValuesOf(s)   == {e \in ToSet(FlattenSeq([i \in DOMAIN Operands(s) |-> SubExprs(s.x[i])])) :
                    e.k = "ssa"}
UsedIds(body) == {e.n : e \in UNION {ValuesOf(s) : s \in Ops(body)}}
Uses(body, id) == Len(SelectSeq(Flat(body), LAMBDA s : id \in {e.n : e \in ValuesOf(s)}))
HasValue(s)   == s.k \in Valued /\ s.n # ""
\* the operation behind e
SourceOf(ops, e) ==
  IF e.k = "ssa" /\ \E s \in ops : HasValue(s) /\ s.n = e.n
    THEN (CHOOSE s \in ops : HasValue(s) /\ s.n = e.n).x[1] ELSE e
IsReg(ops, e, r) == SourceOf(ops, e).k = "reg" /\ SourceOf(ops, e).n = r

RECURSIVE Erased(_, _)
\* the list without the statements gone
Erased(list, gone) ==
  LET stay == SelectSeq(list, LAMBDA s : s \notin gone)
  IN [i \in DOMAIN stay |->
        [stay[i] EXCEPT !.arms = [j \in DOMAIN @ |-> Erased(@[j], gone)]]]

-----------------------------------------------------------------------------
(***************************************************************************)
(* The variable a return gives back.                                       *)
(***************************************************************************)
Referenced(body) == UNION {VarsIn(s.x) : s \in {t \in Ops(body) : t.k # "lowret"}}

\* the variable, if one is certain
BoundResult(f) ==
  IF "result" \in ToSet(f.locals) THEN {"result"}
  ELSE IF f.source.convention \in {"sysv", "win64"}
    THEN {"rax"} \cap ToSet(f.locals) \cap Referenced(f.body)
  ELSE IF f.source.convention = "aapcs64"
    THEN {"param_1"} \cap ToSet(f.params) \cap Referenced(f.body)
  ELSE {}

RECURSIVE Bound(_, _)
Bound(list, name) ==
  [i \in DOMAIN list |->
     IF list[i].k = "lowret" THEN Return(Var(name))
     ELSE [list[i] EXCEPT !.arms = [j \in DOMAIN @ |-> Bound(@[j], name)]]]

BindReturnValues(f) ==
  IF ~f.source.returns \/ f.source.void \/ BoundResult(f) = {} THEN f
  ELSE [f EXCEPT !.body = Bound(@, CHOOSE n \in BoundResult(f) : TRUE)]

-----------------------------------------------------------------------------
(***************************************************************************)
(* The traces of the machine.                                              *)
(***************************************************************************)
RECURSIVE RemoveInfrastructureOps(_)
\* what is marked as bookkeeping, unless something else uses its value
RemoveInfrastructureOps(body) ==
  LET left == Erased(body, {s \in Ops(body) : s.k = "infra" /\ s.n \notin UsedIds(body)})
  IN IF left = body THEN body ELSE RemoveInfrastructureOps(left)

RemoveNops(body) == Erased(body, {s \in Ops(body) : s.k = "low" /\ s.n = "nop"})

IsPushOf(ops, s, r) == s.k = "push" /\ IsReg(ops, s.x[1], r)
\* the writes of the register a pop restores
Restores(ops, pop) == {w \in ops : w.k = "regwrite" /\ w.x[1].k = "ssa" /\ w.x[1].n = pop.n}
IsPopOf(ops, s, r) == s.k = "pop" /\ \E w \in Restores(ops, s) : w.n = r

\* the first push of every register that is to be preserved, and its last pop
FindPrologueEpiloguePairs(list, ops) ==
  {<<SelectSeq(list, LAMBDA s : IsPushOf(ops, s, r))[1],
     Last(SelectSeq(list, LAMBDA s : IsPopOf(ops, s, r)))>> :
     r \in {n \in NonVolatile : /\ \E s \in ops : IsPushOf(ops, s, n)
                                /\ \E s \in ops : IsPopOf(ops, s, n)}}
RemovePushPopPairs(body) ==
  Erased(body, UNION {{p[1], p[2]} \cup Restores(Ops(body), p[2]) :
                        p \in FindPrologueEpiloguePairs(Flat(body), Ops(body))})
\* the saves the lifter marked, unless something uses what is restored
RemoveAnnotatedSaves(body) ==
  Erased(body, {s \in Ops(body) : s.k \in {"push", "pop"} /\ Len(s.x) = 2
                                  /\ s.n \notin UsedIds(body)})

\* push rbp, rbp = rsp, rsp = rbp and pop rbp, with whatever uses what is popped
FramePointerOps(ops) ==
  LET popped == {s \in ops : IsPopOf(ops, s, "RBP")}
  IN popped
     \cup {s \in ops : \E p \in popped : p.n \in {e.n : e \in ValuesOf(s)}}
     \cup {s \in ops : \/ IsPushOf(ops, s, "RBP")
                       \/ s.k = "regwrite" /\ s.n = "RBP" /\ IsReg(ops, s.x[1], "RSP")
                       \/ s.k = "regwrite" /\ s.n = "RSP" /\ IsReg(ops, s.x[1], "RBP")}
RemoveFramePointerOps(body) == Erased(body, FramePointerOps(Ops(body)))

\* rsp = rsp + n, and rsp = rsp
IsStackPointerBookkeeping(ops, s) ==
  /\ s.k = "regwrite" /\ s.n = "RSP"
  /\ \/ IsReg(ops, s.x[1], "RSP")
     \/ LET v == SourceOf(ops, s.x[1])
        IN v.k = "bin" /\ v.n \in {"+", "-"} /\ \E i \in 1 .. 2 : IsReg(ops, v.x[i], "RSP")

\* the values of these names that nothing uses, calls and pops excepted
Orphans(body, ids) ==
  {s \in Ops(body) : s.k \in {"def", "fixed", "infra", "llvmcall"} /\ s.n \in ids \ UsedIds(body)}
RemoveOrphans(body, gone, ids) ==
  LET left == Erased(body, gone) IN Erased(left, Orphans(left, ids))

RemoveStackAdjustments(body) ==
  LET gone == {s \in Ops(body) : IsStackPointerBookkeeping(Ops(body), s)}
  IN RemoveOrphans(body, gone, {s.x[1].n : s \in {t \in gone : t.x[1].k = "ssa"}})

-----------------------------------------------------------------------------
(***************************************************************************)
(* Writes of registers, comparisons and values that nobody needs.          *)
(***************************************************************************)
PartOf(r) == IF r \in DOMAIN Lane THEN Lane[r].of ELSE r
InOneRegister(a, b) == a \in DOMAIN Lane /\ b \in DOMAIN Lane /\ PartOf(a) = PartOf(b)
DoesWriteFullyCover(writer, target) ==
  InOneRegister(writer, target) /\ Lane[target].bits \subseteq Lane[writer].bits
DoesReadOverlap(reader, writer) ==
  InOneRegister(reader, writer) /\ Lane[reader].bits \cap Lane[writer].bits # {}

\* what the statement t does to the register r: its nested lists, and the
\* condition of a loop, are not of its block
RegistersRead(t) ==
  IF IsLoop(t) THEN {}
  ELSE {e.n : e \in {d \in ToSet(FlattenSeq([i \in DOMAIN t.x |-> SubExprs(t.x[i])])) :
                       d.k = "reg"}}
Reach(t, r) ==
  IF \E n \in RegistersRead(t) : DoesReadOverlap(n, r) THEN "read"
  ELSE IF t.k = "regwrite" /\ DoesWriteFullyCover(t.n, r) THEN "over"
  ELSE IF t.k = "lowcall" /\ PartOf(r) \in Volatile THEN "over"
  ELSE IF t.k # "lowret" THEN "none"
  ELSE IF PartOf(r) = "RAX" \/ r \in VectorNames THEN "read" ELSE "over"

\* the i-th operation of the list writes a register that is written again in
\* the same list before it is read
IsDeadRegisterWrite(list, i, body) ==
  LET w == list[i]
      met == SelectSeq([j \in 1 .. Len(list) - i |-> Reach(list[i + j], w.n)],
                       LAMBDA what : what # "none")
  IN /\ w.k = "regwrite"
     /\ PartOf(w.n) \notin {"RSP", "RBP"} /\ w.n \notin VectorNames
     /\ w.x[1].k = "ssa" => Uses(body, w.x[1].n) = 1
     /\ met # <<>> /\ met[1] = "over"

RECURSIVE LiveWrites(_, _), RemoveDeadRegisterWrites(_)
LiveWrites(list, body) ==
  LET stay == SelectSeq([i \in DOMAIN list |-> i], LAMBDA i : ~IsDeadRegisterWrite(list, i, body))
  IN [i \in DOMAIN stay |->
        [list[stay[i]] EXCEPT !.arms = [j \in DOMAIN @ |-> LiveWrites(@[j], body)]]]
RemoveDeadRegisterWrites(body) ==
  LET left == LiveWrites(body, body)
  IN IF left = body THEN body ELSE RemoveDeadRegisterWrites(left)

Unused(s, body) == s.k \in {"def", "fixed"} /\ s.n \notin UsedIds(body)
RemoveDeadFlags(body) ==
  Erased(body, {s \in Ops(body) : Unused(s, body) /\ s.x[1].k \in {"cmp", "test"}})

\* operations with an effect, and the arithmetic of the low tier
Kept == {"bin", "call", "machine", "opaque", "other"}
RECURSIVE RemoveTriviallyDeadOps(_)
RemoveTriviallyDeadOps(body) ==
  LET left == Erased(body, {s \in Ops(body) : Unused(s, body) /\ s.x[1].k \notin Kept})
  IN IF left = body THEN body ELSE RemoveTriviallyDeadOps(left)

-----------------------------------------------------------------------------
(***************************************************************************)
(* Variables whose values reach no branch, call, return or store.          *)
(***************************************************************************)
IsLiveConsumer(s) ==
  \/ s.k \in {"if", "switch", "while", "dowhile", "call", "lowcall", "return", "store"}
  \/ Sets(s) /\ Name(s) = "result"

\* the variables and values s reads, and the one it gives its value to
NamesRead(s) ==
  IF s.k = "lowret" THEN {}
  ELSE {e.n : e \in {d \in ToSet(FlattenSeq([i \in DOMAIN Operands(s) |->
                              IF Sets(s) /\ i = 1 THEN <<>> ELSE SubExprs(s.x[i])])) :
                       d.k \in {"var", "ssa"}}}
NamesGiven(s) == IF Sets(s) THEN {Name(s)} ELSE IF HasValue(s) THEN {s.n} ELSE {}

RECURSIVE LiveNames(_, _)
\* what the live consumers read, and what is read to compute one of live
LiveNames(ops, live) ==
  LET more == live \cup UNION {NamesRead(s) : s \in
                {t \in ops : IsLiveConsumer(t) \/ NamesGiven(t) \cap live # {}}}
  IN IF more = live THEN live ELSE LiveNames(ops, more)
IsValueLive(body, n) == n \in LiveNames(Ops(body), {})

\* nothing but s reads or, if it is the result, assigns what s assigns
TargetIsDead(s, body) ==
  /\ ~IsValueLive(body, Name(s))
  /\ Name(s) = "result" => \A t \in Ops(body) : Sets(t) /\ Name(t) = "result" => t = s

IsDeadUndefAssign(s, body) == Value(s) = Var("__undef") /\ TargetIsDead(s, body)
IsDeadAssign(s, f) ==
  /\ Name(s) \notin FloatNames
  /\ ~(f.source.returns /\ Name(s) = "result")
  /\ TargetIsDead(s, f.body)

\* the assignments, and what only they used
RemoveAssigns(body, gone) ==
  RemoveOrphans(body, gone, {Value(s).n : s \in {t \in gone : Value(t).k = "ssa"}})
RemoveDeadUndefs(f) ==
  [f EXCEPT !.body = RemoveAssigns(@, {s \in Ops(@) : Sets(s) /\ IsDeadUndefAssign(s, @)})]
RemoveDeadAssigns(f) ==
  [f EXCEPT !.body = RemoveAssigns(@, {s \in Ops(@) : Sets(s) /\ IsDeadAssign(s, f)})]

IsDeadVarDecl(n, f) ==
  /\ n \notin FloatNames
  /\ ~(n = "result" /\ (f.source.returns \/ n \in SetIn(f.body)))
  /\ ~IsValueLive(f.body, n)
  /\ f.source.convention = "aapcs64" =>
       \A s \in Ops(f.body) : Sets(s) => Value(s) # Var(n)
RemoveDeadDecls(f) == [f EXCEPT !.locals = SelectSeq(@, LAMBDA n : ~IsDeadVarDecl(n, f))]

RECURSIVE RemoveDeadVariables(_, _)
\* removing one variable may leave another without a reader
RemoveDeadVariables(f, sweeps) ==
  LET left == RemoveDeadDecls(RemoveDeadAssigns(RemoveDeadUndefs(f)))
  IN IF sweeps = 0 \/ left = f THEN f ELSE RemoveDeadVariables(left, sweeps - 1)

RemoveMachine(body) ==
  RemoveStackAdjustments(RemoveFramePointerOps(RemoveAnnotatedSaves(
    RemovePushPopPairs(RemoveNops(RemoveInfrastructureOps(body))))))
EliminateDeadCode(f) ==
  IF f.body = <<>> THEN f
  ELSE RemoveDeadVariables(
         [f EXCEPT !.body = RemoveTriviallyDeadOps(RemoveDeadFlags(
                              RemoveDeadRegisterWrites(RemoveMachine(@))))], MaxSweeps)

-----------------------------------------------------------------------------
(***************************************************************************)
(* Slots of the frame that become values.                                  *)
(***************************************************************************)
\* the slots whose every use is in the one block of the function, as a value
SafeSlots(f) ==
  LET nested == UNION {UNION {NamesIn(arm) : arm \in ToSet(s.arms)} : s \in ToSet(f.body)}
      conditions == UNION {VarsIn(s.x) : s \in {t \in ToSet(f.body) : IsLoop(t)}}
  IN IF \E s \in ToSet(f.body) : s.k = "block" THEN {}
     ELSE (StackSlots \cap ToSet(f.locals) \cap NamesIn(f.body))
            \ (nested \cup conditions \cup AddressTaken(f.body))

\* the value a slot has where it is read
SlotValue(n, now) == IF now[n] = "" THEN Expr("undef", "", 0, <<>>) ELSE Expr("ssa", now[n], 0, <<>>)

RECURSIVE Loaded(_, _)
Loaded(e, now) ==
  IF e.k = "var" /\ e.n \in DOMAIN now THEN SlotValue(e.n, now)
  ELSE [e EXCEPT !.x = [i \in DOMAIN @ |-> Loaded(@[i], now)]]

\* the i-th operation of the block, when the slots hold the values now: the
\* value that is assigned needs a name if it has none
PromoteHere(list, s, i, now) ==
  LET loaded == [s EXCEPT !.x = [j \in DOMAIN @ |-> Loaded(@[j], now)]]
      id == Name(s) \o "." \o ToString(i)
  IN IF ~(Sets(s) /\ Name(s) \in DOMAIN now) THEN [list |-> Append(list, loaded), now |-> now]
     ELSE IF Value(s).k = "ssa" THEN [list |-> list, now |-> [now EXCEPT ![Name(s)] = Value(s).n]]
     ELSE [list |-> Append(list, Stmt("def", id, <<Loaded(Value(s), now)>>, <<>>)),
           now |-> [now EXCEPT ![Name(s)] = id]]

PromoteSlots(f, slots) ==
  LET step(acc, i) == PromoteHere(acc.list, f.body[i], i, acc.now)
  IN [f EXCEPT !.locals = SelectSeq(@, LAMBDA n : n \notin slots),
               !.body = FoldLeft(step, [list |-> <<>>, now |-> [n \in slots |-> ""]],
                                 [i \in DOMAIN f.body |-> i]).list]
MemorySlotPilot(f) == IF f.source.pilot THEN PromoteSlots(f, SafeSlots(f)) ELSE f
=============================================================================
