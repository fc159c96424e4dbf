----------------------------- MODULE StackLayout -----------------------------
(***************************************************************************)
(* The pass that follows the lifter, RecoverStackLayout.cpp of             *)
(* src/engine/src/passes: a word of memory that is reached from the stack  *)
(* or the frame pointer at a known offset, or that lies in the frame the   *)
(* lifter set aside, becomes a variable; what lies above the return        *)
(* address, and was put there by the caller, becomes a parameter.          *)
(*                                                                         *)
(* The function is still one list of operations, or blocks of them (see    *)
(* CAstBuilder for their shape).  An address is a sum or a difference, or  *)
(* a value that names one; local is an address of the lifter's frame.      *)
(*                                                                         *)
(* Left out: the width of an access, which only proposes a type (see       *)
(* TypeEvidence), what is marked for later passes, and conversions between *)
(* pointers and integers, which are looked through.                        *)
(***************************************************************************)
EXTENDS DeadOperations
CONSTANT FrameRegisters  \* variable -> the frame register it holds

At(base, offset) == [base |-> base, offset |-> offset]

\* the frame register e reads, and the number e is: a set of one, or none
GetStackBase(ops, e) ==
  LET v == SourceOf(ops, e)
  IN IF v.k = "reg" THEN {v.n} \cap {"RSP", "RBP"}
     ELSE IF v.k = "var" /\ v.n \in DOMAIN FrameRegisters THEN {FrameRegisters[v.n]} ELSE {}
GetIntegerOffset(ops, e) == LET v == SourceOf(ops, e) IN IF v.k = "int" THEN {v.v} ELSE {}

Signed(op, v) == IF op = "+" THEN v ELSE -v
\* the slot the address leads to, if it is one
AnalyzeStackAccess(ops, address) ==
  LET a == SourceOf(ops, address)
      sum == a.k \in {"llvm", "bin"} /\ a.n \in {"+", "-"}
      Slots(base, offset) ==
        {At(b, Signed(a.n, v)) : b \in GetStackBase(ops, base), v \in GetIntegerOffset(ops, offset)}
  IN CASE GetStackBase(ops, a) # {} -> {At(b, 0) : b \in GetStackBase(ops, a)}
       [] sum /\ Slots(a.x[1], a.x[2]) # {} -> Slots(a.x[1], a.x[2])
       [] sum /\ a.k = "llvm" /\ a.n = "+" -> Slots(a.x[2], a.x[1])
       [] a.k = "lea" -> {At(b, a.v) : b \in GetStackBase(ops, a.x[1])}
       [] a.k = "local" -> {At("local", a.v)}
       [] OTHER -> {}

\* the slots the operation s reads or writes
Accessed(ops, s) ==
  LET loads == {e \in ToSet(FlattenSeq([i \in DOMAIN s.x |-> SubExprs(s.x[i])])) : e.k = "load"}
  IN UNION {AnalyzeStackAccess(ops, e.x[1]) : e \in loads}
     \cup (IF s.k = "store" THEN AnalyzeStackAccess(ops, s.x[1]) ELSE {})

-----------------------------------------------------------------------------
(***************************************************************************)
(* Where the frame pointer stands, and what lies above it.                 *)
(***************************************************************************)
RECURSIVE DeltaOf(_, _)
\* how far from its first value the stack pointer e is computed from stands
DeltaOf(e, st) ==
  LET plus(l, r) == {d + Signed(e.n, v.v) : d \in DeltaOf(l, st), v \in {c \in {r} : c.k = "int"}}
  IN CASE e.k = "reg" /\ e.n = "RSP" -> {st.delta}
       [] e.k = "ssa" -> IF e.n \in DOMAIN st.known THEN {st.known[e.n]} ELSE {}
       [] e.k \in {"llvm", "bin"} /\ e.n = "+" ->
            IF plus(e.x[1], e.x[2]) # {} THEN plus(e.x[1], e.x[2]) ELSE plus(e.x[2], e.x[1])
       [] e.k \in {"llvm", "bin"} /\ e.n = "-" -> plus(e.x[1], e.x[2])
       [] OTHER -> {}

GivesUpDeltas(st) == [st EXCEPT !.done = TRUE]
\* one operation of the first block, until the frame pointer is set
FollowStackPointer(st, s) ==
  LET value == DeltaOf(s.x[1], st)
  IN CASE st.done -> st
       [] s.k = "push" -> [st EXCEPT !.delta = @ - 8]
       [] s.k = "pop" -> GivesUpDeltas(st)
       [] s.k = "regwrite" /\ s.n \in {"RSP", "ESP"} ->
            IF s.n = "ESP" \/ value = {} THEN GivesUpDeltas(st)
            ELSE [st EXCEPT !.delta = CHOOSE d \in value : TRUE]
       [] s.k = "regwrite" /\ s.n = "RBP" /\ value # {} ->
            [GivesUpDeltas(st) EXCEPT !.first = {40 - d : d \in value}]
       [] HasValue(s) /\ value # {} ->
            [st EXCEPT !.known = [n \in {s.n} |-> CHOOSE d \in value : TRUE] @@ @]
       [] OTHER -> st

\* from the frame pointer, where the fifth argument of Win64 would be
InferRbpStackParamBaseOffset(ops) ==
  FoldLeft(LAMBDA st, s : IF s.x = <<>> THEN st ELSE FollowStackPointer(st, s),
           [delta |-> 0, known |-> <<>>, first |-> {}, done |-> FALSE], ops).first

\* where, from each register, the first argument on the stack is, and which
FirstOnStack(f, base) ==
  LET rbp == InferRbpStackParamBaseOffset(Blocks(f.body)[1].arms[1])
  IN CASE f.source.convention = "win64" /\ base = "RSP" -> {40}
       [] f.source.convention = "win64" /\ base = "RBP" -> rbp
       [] f.source.convention = "sysv"  /\ base = "RSP" -> {8}
       [] f.source.convention = "sysv"  /\ base = "RBP" -> {v - 32 : v \in {w \in rbp : w >= 32}}
       [] OTHER -> {}
FirstIndex(f) == IF f.source.convention = "win64" THEN 5 ELSE 7
GetParamIndex(f, slot) ==
  {FirstIndex(f) + (slot.offset - first) \div 8 :
     first \in {v \in FirstOnStack(f, slot.base) :
                  /\ slot.offset > 0 /\ slot.offset >= v
                  /\ (slot.offset - v) % 8 = 0}}

\* the stack pointer no longer is where it was on entry
MovesStackPointer(s) ==
  \/ s.k \in {"push", "pop"}
  \/ s.k = "regwrite" /\ s.n \in {"RSP", "ESP"}
HasStackPointerAdjustmentBefore(ops, i) == \E j \in 1 .. i - 1 : MovesStackPointer(ops[j])

\* what is above the stack pointer, but of this function
NonParameterSlots(f, ops) ==
  LET blocks == Blocks(f.body)
      moved(b, i) == \/ HasStackPointerAdjustmentBefore(blocks[b].arms[1], i)
                     \/ f.source.convention = "sysv" /\ b > 1
      of(b) == UNION {Accessed(ops, blocks[b].arms[1][i]) :
                        i \in {j \in DOMAIN blocks[b].arms[1] : moved(b, j)}}
  IN {s \in UNION {of(b) : b \in DOMAIN blocks} : s.base = "RSP" /\ s.offset > 0}

-----------------------------------------------------------------------------
(***************************************************************************)
(* The variables, and the operations that use them.                        *)
(***************************************************************************)
Magnitude(v) == IF v < 0 THEN -v ELSE v
IsParameter(f, slot, own) == slot \notin own /\ GetParamIndex(f, slot) # {}
SlotName(f, slot, own) ==
  CASE slot.base # "local" /\ slot.offset = 0 ->
         IF slot.base = "RBP" THEN "saved_rbp" ELSE "var_0"
    [] IsParameter(f, slot, own) ->
         "param_" \o ToString(CHOOSE i \in GetParamIndex(f, slot) : TRUE)
    [] OTHER -> "var_" \o ToString(Magnitude(slot.offset))

\* the slots in the order of their offsets, from the same one RSP before RBP
Before(a, b) == \/ a.offset < b.offset
                \/ a.offset = b.offset /\ a.base = "RSP" /\ b.base # "RSP"
                \/ a.offset = b.offset /\ a.base = "RBP" /\ b.base = "local"
\* the names of the slots, each once
NamesOf(f, slots, own) ==
  FoldLeft(LAMBDA names, s : IF SlotName(f, s, own) \in ToSet(names) THEN names
                             ELSE Append(names, SlotName(f, s, own)),
           <<>>, SetToSortSeq(slots, Before))

RECURSIVE WithVariables(_, _, _), Replaced(_, _, _)
\* the expression, and the list, with variables in place of the slots
WithVariables(e, ops, name) ==
  LET slot == IF e.k = "load" THEN AnalyzeStackAccess(ops, e.x[1]) ELSE {}
  IN IF slot = {} THEN [e EXCEPT !.x = [i \in DOMAIN @ |-> WithVariables(@[i], ops, name)]]
     ELSE Var(name[CHOOSE s \in slot : TRUE])
Replaced(list, ops, name) ==
  LET of(s) == IF s.k = "store" THEN AnalyzeStackAccess(ops, s.x[1]) ELSE {}
      with(s, i) == WithVariables(s.x[i], ops, name)
  IN [i \in DOMAIN list |->
        IF of(list[i]) # {}
          THEN Assign(Var(name[CHOOSE s \in of(list[i]) : TRUE]), with(list[i], 2))
          ELSE [list[i] EXCEPT !.x = [j \in DOMAIN @ |-> with(list[i], j)],
                               !.arms = [j \in DOMAIN @ |-> Replaced(@[j], ops, name)]]]

RecoverStackLayout(f) ==
  LET ops == Ops(f.body)
      slots == UNION {Accessed(ops, s) : s \in ops}
      own == NonParameterSlots(f, ops)
      given == {s \in slots : IsParameter(f, s, own)}
  IN IF slots = {} THEN f
     ELSE [f EXCEPT !.params = @ \o NamesOf(f, given, own),
                    !.locals = NamesOf(f, slots \ given, own) \o @,
                    !.body = Replaced(@, ops, [s \in slots |-> SlotName(f, s, own)])]
=============================================================================
